---- MODULE Spec2Model ----
(***************************************************************************)
(* State-machine model of the TAG front end's match engine: the App        *)
(* component (src/src/App.tsx), the GamePlay component                     *)
(* (src/unnamed/part_002), the RoundResults component                      *)
(* (src/unnamed/part_003) and the helpers of src/src/utils/game.ts and     *)
(* src/src/utils/storage.ts.                                               *)
(*                                                                         *)
(* React specifics that the model keeps:                                   *)
(*  - a handler or timer callback sees the values of the render in which   *)
(*    it was created (its closure), not the current ones;                  *)
(*  - { ...gameState } is a shallow copy: teamScores and wordsUsed are one *)
(*    object and one array shared by every copy of the match state, and    *)
(*    handleRoundResultsConfirm changes them in place;                     *)
(*  - effects run after the render that follows a state change; they are   *)
(*    part of the step that caused the change;                             *)
(*  - a callback scheduled with setTimeout is a pending task; it outlives  *)
(*    the component that scheduled it.                                     *)
(***************************************************************************)
EXTENDS Integers, Sequences, FiniteSets, TLC

VARIABLES
    screen,        \* App: screen
    gameState,     \* App: gameState (every field except the two shared objects), or Null
    teamScores,    \* the Record<string, number> object every copy of gameState points to
    wordsUsed,     \* the string[] array every copy of gameState points to
    gp,            \* the mounted GamePlay instance (its useState/useRef cells), or Null
    finalResults,  \* the finalResults cell of RoundResults (<<>> while it is not mounted)
    tasks,         \* pending setTimeout callbacks, in the order they were scheduled
    now,           \* Date.now(), in milliseconds
    stored,        \* localStorage["tag_game_state"], or Null
    roundSeq,      \* history: number of rounds started so far
    scoredRounds,  \* history: rounds of which a log entry has been scored
    hist,          \* history: endRound calls per round; a confirmation since the last round start
    probe          \* inputs and result of the pure-function specifications

vars == <<screen, gameState, teamScores, wordsUsed, gp, finalResults, tasks,
          now, stored, roundSeq, scoredRounds, hist, probe>>

-----------------------------------------------------------------------------
(* Bounds of the model *)

\* Date.now() advances in steps of ClockStep milliseconds, up to MaxNow.
ClockStep == 7500
MaxNow == 30000

\* The page is reloaded at most MaxReloads times.
MaxReloads == 1

\* At most MaxMatches matches are started.
MaxMatches == 1

\* Longest array handed to shuffleArray on its own.
MaxShuffleLen == 4

\* The theme played: its words (theme.description.words) and its teams.
ThemeWords == <<"w1", "w2">>
ThemeTeams == <<"A", "B">>

\* The values GameSetup hands to handleGameStart.
PointsChoices == {1, 2}
TimerChoices == {10, 15}

\* Score vectors and thresholds of the checkWinCondition specification:
\* every team's score is in -1 .. MaxProbeScore, pointsRequired in
\* 1 .. MaxProbePoints.
MaxProbeScore == 3
MaxProbePoints == 3
ProbeScores == (0 - 1) .. MaxProbeScore
ProbePoints == 1 .. MaxProbePoints
ProbeTeams == <<"A", "B", "C">>

\* Round numbers from which the turn-rotation specification starts.
MaxProbeRound == 4

-----------------------------------------------------------------------------
(* Values *)

\* null of a state cell that otherwise holds a record
Null == [null |-> TRUE]

\* null of roundStartTime / roundEndTime
NoTime == 0 - 1

Range(s) == {s[i] : i \in DOMAIN s}

\* Array.prototype.filter
RECURSIVE Filter(_, _)
Filter(s, keep) ==
    IF s = <<>> THEN <<>>
    ELSE (IF Head(s) \in keep THEN <<Head(s)>> ELSE <<>>) \o Filter(Tail(s), keep)

\* Math.max(...values) over a non-empty collection
MathMax(S) == CHOOSE x \in S : \A y \in S : y <= x

\* Math.ceil(a / b) for b > 0
Ceil(a, b) == 0 - ((0 - a) \div b)

-----------------------------------------------------------------------------
(* src/src/utils/game.ts *)

getAvailableWords(words, used) ==
    Filter(words, Range(words) \ Range(used))

Swap(s, i, j) == [s EXCEPT ![i] = s[j], ![j] = s[i]]

\* Variant of ShuffleFrom: j is drawn below i, never i itself.
RECURSIVE ShuffleFromBelow(_, _)
ShuffleFromBelow(s, i) ==
    IF i <= 1 THEN {s}
    ELSE UNION {ShuffleFromBelow(Swap(s, i, j), i - 1) : j \in 1 .. (i - 1)}

\* The arrays shuffleArray can return: for i = n-1 down to 1 (0-based),
\* j = floor(random * (i + 1)) is any index 0..i, and elements i and j swap.
RECURSIVE ShuffleFrom(_, _)
ShuffleFrom(s, i) ==
    IF i <= 1 THEN {s}
    ELSE UNION {ShuffleFrom(Swap(s, i, j), i - 1) : j \in 1 .. i}

shuffleArray(array) == ShuffleFrom(array, Len(array))

initializeGameState(settings) ==
    [settings |-> settings,
     currentTeamIndex |-> 0,
     currentRound |-> 1,
     currentWordIndex |-> 0,
     roundStartTime |-> NoTime,
     roundEndTime |-> NoTime,
     isRoundActive |-> FALSE,
     roundResults |-> <<>>]

\* Variant of initialTeamScores: only the first selected team gets an entry.
initialTeamScoresFirstTeam(settings) ==
    [t \in {settings.selectedTeams[i] : i \in DOMAIN settings.selectedTeams \cap {1}} |-> 0]

initialTeamScores(settings) ==
    [t \in Range(settings.selectedTeams) |-> 0]

getCurrentTeam(state) ==
    state.settings.selectedTeams[state.currentTeamIndex + 1]

\* Variant of checkWinCondition: every team at or above the threshold wins,
\* whether or not it holds the highest score.
checkWinConditionAnyAbove(scores, teams, pointsRequired) ==
    Filter(teams, {t \in DOMAIN scores : scores[t] >= pointsRequired})

\* Object.entries(teamScores) lists the teams in the order initializeGameState
\* inserted them, the order of selectedTeams.
checkWinCondition(scores, teams, pointsRequired) ==
    LET maxScore == MathMax({scores[t] : t \in DOMAIN scores})
    IN  IF maxScore < pointsRequired THEN <<>>
        ELSE Filter(teams, {t \in DOMAIN scores : scores[t] = maxScore})

-----------------------------------------------------------------------------
(* src/src/utils/storage.ts *)

\* Variant of saveGameState: the scores are written as they were when the
\* match was created.
saveGameStateInitialScores(state, scores, used) ==
    [state |-> state, teamScores |-> initialTeamScores(state.settings),
     wordsUsed |-> used]

\* JSON.stringify(state): a deep copy of the whole match state
saveGameState(state, scores, used) ==
    [state |-> state, teamScores |-> scores, wordsUsed |-> used]

\* Two values the item can hold that no saveGameState wrote: a text that
\* JSON.parse rejects, and a text that parses to an object which is not a
\* GameState (it has none of its fields).
Unparseable == [text |-> "{"]
Corrupt == [text |-> "{}"]

\* Variant of getGameState: an empty object when the item is absent.
getGameStateEmptyObject(item) ==
    IF item = Null THEN Corrupt
    ELSE IF item = Unparseable THEN Null
    ELSE item

\* getGameState: null when the item is absent or JSON.parse throws,
\* otherwise whatever JSON.parse returns
getGameState(item) ==
    IF item = Null THEN Null
    ELSE IF item = Unparseable THEN Null
    ELSE item

-----------------------------------------------------------------------------
(* The App and the components it mounts, as one value.  The operators     *)
(* below take such a value and return the next one, so that a step can    *)
(* chain a handler, the render that follows and the effects of that       *)
(* render.                                                                 *)

World ==
    [screen |-> screen, gameState |-> gameState, gp |-> gp,
     finalResults |-> finalResults, tasks |-> tasks, stored |-> stored,
     roundSeq |-> roundSeq]

\* GamePlay's cells at mount (useState / useRef initial values).  rid is
\* history: the number of the round startRound last started in this instance.
gpFresh ==
    [currentWord |-> "",
     roundWords |-> <<>>,
     roundResults |-> <<>>,
     roundResultsRef |-> <<>>,
     roundEndedByTimeout |-> FALSE,
     isCardExiting |-> FALSE,
     timer |-> Null,
     rid |-> 0]

\* GamePlay: availableWords
availableWords(state, used) ==
    getAvailableWords(state.settings.theme, used)

\* GamePlay: the two places that list the teams holding the highest score
maxScoreTeams(scores, teams) ==
    LET maxScore == MathMax({scores[t] : t \in DOMAIN scores})
    IN  Filter(teams, {t \in DOMAIN scores : scores[t] = maxScore})

\* GamePlay: winners, computed in every render
winners(state, scores, used) ==
    LET targetWinners ==
            checkWinCondition(scores, state.settings.selectedTeams,
                              state.settings.pointsRequired)
    IN  IF Len(targetWinners) > 0 THEN targetWinners
        ELSE IF Len(availableWords(state, used)) = 0
             THEN maxScoreTeams(scores, state.settings.selectedTeams)
             ELSE <<>>

\* GamePlay: which of its three views the render returns
view(state, scores, used) ==
    IF Len(winners(state, scores, used)) > 0 THEN "game-over"
    ELSE IF ~state.isRoundActive THEN "start-round"
    ELSE "round"

\* GamePlay: the time computed by the interval callback (and by remainingTime)
timeLeft(roundTimer, startTime, t) ==
    LET c == Ceil(roundTimer * 1000 - (t - startTime), 1000)
    IN  IF c > 0 THEN c ELSE 0

\* Variant of handleGameEnd: the persisted item is not removed.
handleGameEndKeepsStorage(w) ==
    [w EXCEPT !.gameState = Null, !.screen = "theme-selection"]

\* App: handleGameEnd (the remote update is a collaborator outside the model)
handleGameEnd(w) ==
    [w EXCEPT !.stored = Null, !.gameState = Null, !.screen = "theme-selection"]

\* Variant of startRound: the round is marked active, roundStartTime is left
\* as it was.
startRoundNoTimestamp(w, scores, used, sh, t) ==
    IF Len(availableWords(w.gameState, used)) = 0
    THEN IF Len(maxScoreTeams(scores, w.gameState.settings.selectedTeams)) > 0
         THEN w
         ELSE handleGameEnd(w)
    ELSE [w EXCEPT
            !.gp = [w.gp EXCEPT !.roundWords = sh,
                                !.currentWord = IF Len(sh) > 0 THEN sh[1] ELSE "",
                                !.roundResults = <<>>,
                                !.roundResultsRef = <<>>,
                                !.rid = w.roundSeq + 1],
            !.roundSeq = w.roundSeq + 1,
            !.gameState = [w.gameState EXCEPT !.isRoundActive = TRUE,
                                              !.currentWordIndex = 0]]

\* Variant of startRound: the log of the round before is kept.
startRoundKeepsLog(w, scores, used, sh, t) ==
    IF Len(availableWords(w.gameState, used)) = 0
    THEN IF Len(maxScoreTeams(scores, w.gameState.settings.selectedTeams)) > 0
         THEN w
         ELSE handleGameEnd(w)
    ELSE [w EXCEPT
            !.gp = [w.gp EXCEPT !.roundWords = sh,
                                !.currentWord = IF Len(sh) > 0 THEN sh[1] ELSE "",
                                !.rid = w.roundSeq + 1],
            !.roundSeq = w.roundSeq + 1,
            !.gameState = [w.gameState EXCEPT !.isRoundActive = TRUE,
                                              !.roundStartTime = t,
                                              !.currentWordIndex = 0]]

\* Variant of startRound without the empty-pool check.
startRoundUnchecked(w, scores, used, sh, t) ==
    [w EXCEPT
        !.gp = [w.gp EXCEPT !.roundWords = sh,
                            !.currentWord = IF Len(sh) > 0 THEN sh[1] ELSE "",
                            !.roundResults = <<>>,
                            !.roundResultsRef = <<>>,
                            !.rid = w.roundSeq + 1],
        !.roundSeq = w.roundSeq + 1,
        !.gameState = [w.gameState EXCEPT !.isRoundActive = TRUE,
                                          !.roundStartTime = t,
                                          !.currentWordIndex = 0]]

\* GamePlay: startRound, called in a render whose gameState is w.gameState.
\* sh is the array shuffleArray returned.
startRound(w, scores, used, sh, t) ==
    IF Len(availableWords(w.gameState, used)) = 0
    THEN IF Len(maxScoreTeams(scores, w.gameState.settings.selectedTeams)) > 0
         THEN w
         ELSE handleGameEnd(w)
    ELSE [w EXCEPT
            !.gp = [w.gp EXCEPT !.roundWords = sh,
                                !.currentWord = IF Len(sh) > 0 THEN sh[1] ELSE "",
                                !.roundResults = <<>>,
                                !.roundResultsRef = <<>>,
                                !.rid = w.roundSeq + 1],
            !.roundSeq = w.roundSeq + 1,
            !.gameState = [w.gameState EXCEPT !.isRoundActive = TRUE,
                                              !.roundStartTime = t,
                                              !.currentWordIndex = 0]]

\* The callback endRound schedules: setTimeout(() => { setRoundResults(...);
\* onRoundEnd(...) }, 100).  state is the gameState of the render that made
\* endRound, which is also the gameState its onRoundEnd (handleRoundEnd) sees.
\* seq is the number of rounds started when the callback was scheduled.
EndTask(results, state, dead, seq) ==
    [kind |-> "onRoundEnd", delay |-> 100, results |-> results, state |-> state,
     seq |-> seq, dead |-> dead, aged |-> FALSE, seen |-> FALSE]

\* The callback handleWordAction schedules: setTimeout(() => {...}, 200)
WordTask(guessed, g, state) ==
    [kind |-> "wordAction", delay |-> 200, guessed |-> guessed, state |-> state,
     currentWord |-> g.currentWord, roundWords |-> g.roundWords,
     roundResults |-> g.roundResults, rid |-> g.rid,
     dead |-> FALSE, aged |-> FALSE, seen |-> FALSE]

\* The callback the first one schedules: setTimeout(() => {...}, 150)
AnimationTask(dead) ==
    [kind |-> "resetAnimation", delay |-> 150, dead |-> dead, aged |-> FALSE, seen |-> FALSE]

\* Variant of endRound: on a timeout the word in progress is logged as skipped.
endRoundCountsCurrent(w, timedOut, state, ref, live, t) ==
    [w EXCEPT
        !.gp = IF live THEN [w.gp EXCEPT !.timer = Null,
                                         !.roundEndedByTimeout = timedOut]
               ELSE w.gp,
        !.gameState = [state EXCEPT !.isRoundActive = FALSE, !.roundEndTime = t],
        !.tasks = Append(w.tasks,
                         EndTask(IF timedOut /\ live /\ w.gp.currentWord # ""
                                 THEN Append(ref, [word |-> w.gp.currentWord,
                                                   guessed |-> FALSE,
                                                   rnd |-> w.gp.rid])
                                 ELSE ref,
                                 state, ~live, w.roundSeq))]

\* GamePlay: endRound of the render whose gameState is state.  live says
\* whether the instance the closure belongs to is still mounted; ref is
\* roundResultsRef.current of that instance.
endRound(w, timedOut, state, ref, live, t) ==
    [w EXCEPT
        !.gp = IF live THEN [w.gp EXCEPT !.timer = Null,
                                         !.roundEndedByTimeout = timedOut]
               ELSE w.gp,
        !.gameState = [state EXCEPT !.isRoundActive = FALSE, !.roundEndTime = t],
        !.tasks = Append(w.tasks, EndTask(ref, state, ~live, w.roundSeq))]

\* Variant of handleRoundEnd without the winner guard.
handleRoundEndUnguarded(w, results, state, scores) ==
    IF Len(results) = 0
    THEN LET next == (state.currentTeamIndex + 1) % Len(state.settings.selectedTeams)
         IN  [w EXCEPT
                !.gameState =
                    [state EXCEPT
                        !.currentTeamIndex = next,
                        !.currentRound = IF next = 0 THEN @ + 1 ELSE @,
                        !.roundResults = <<>>,
                        !.isRoundActive = FALSE,
                        !.roundStartTime = NoTime,
                        !.currentWordIndex = 0],
                !.screen = "game-play"]
    ELSE [w EXCEPT !.gameState = [state EXCEPT !.roundResults = results],
                   !.screen = "round-results"]

\* Variant of handleRoundEnd without the empty-log branch: every log, empty
\* or not, goes to the confirmation screen.
handleRoundEndAlwaysConfirms(w, results, state, scores) ==
    IF Len(checkWinCondition(scores, state.settings.selectedTeams,
                             state.settings.pointsRequired)) > 0
    THEN w
    ELSE [w EXCEPT !.gameState = [state EXCEPT !.roundResults = results],
                   !.screen = "round-results"]

\* App: handleRoundEnd of the render whose gameState is state
handleRoundEnd(w, results, state, scores) ==
    IF Len(checkWinCondition(scores, state.settings.selectedTeams,
                             state.settings.pointsRequired)) > 0
    THEN w
    ELSE IF Len(results) = 0
    THEN LET next == (state.currentTeamIndex + 1) % Len(state.settings.selectedTeams)
         IN  [w EXCEPT
                !.gameState =
                    [state EXCEPT
                        !.currentTeamIndex = next,
                        !.currentRound = IF next = 0 THEN @ + 1 ELSE @,
                        !.roundResults = <<>>,
                        !.isRoundActive = FALSE,
                        !.roundStartTime = NoTime,
                        !.currentWordIndex = 0],
                !.screen = "game-play"]
    ELSE [w EXCEPT !.gameState = [state EXCEPT !.roundResults = results],
                   !.screen = "round-results"]

\* Variant of scoreChange: a skip costs a point whatever skipPenalty says.
RECURSIVE scoreChangeSkipCosts(_, _)
scoreChangeSkipCosts(results, skipPenalty) ==
    IF results = <<>> THEN 0
    ELSE (IF Head(results).guessed THEN 1 ELSE 0 - 1)
         + scoreChangeSkipCosts(Tail(results), skipPenalty)

\* App: scoreChange of handleRoundResultsConfirm
RECURSIVE scoreChange(_, _)
scoreChange(results, skipPenalty) ==
    IF results = <<>> THEN 0
    ELSE (IF Head(results).guessed THEN 1
          ELSE IF skipPenalty THEN 0 - 1 ELSE 0)
         + scoreChange(Tail(results), skipPenalty)

\* Variant of confirmScores: the score change goes to every team.
confirmScoresEveryTeam(state, scores, results) ==
    [t \in DOMAIN scores |->
        scores[t] + scoreChange(results, state.settings.skipPenalty)]

\* Variant of confirmScores: a skip costs a point whatever skipPenalty says.
confirmScoresAlwaysPenalty(state, scores, results) ==
    LET currentTeam == state.settings.selectedTeams[state.currentTeamIndex + 1]
    IN  [scores EXCEPT ![currentTeam] = @ + scoreChange(results, TRUE)]

\* App: handleRoundResultsConfirm, its effect on the teamScores object
confirmScores(state, scores, results) ==
    LET currentTeam == state.settings.selectedTeams[state.currentTeamIndex + 1]
    IN  [scores EXCEPT ![currentTeam] = @ + scoreChange(results, state.settings.skipPenalty)]

\* Variant of confirmWords: only the guessed words count as used.
confirmWordsGuessedOnly(used, results) ==
    used \o [i \in 1 .. Len(SelectSeq(results, LAMBDA r : r.guessed)) |->
                SelectSeq(results, LAMBDA r : r.guessed)[i].word]

\* App: handleRoundResultsConfirm, its effect on the wordsUsed array
confirmWords(used, results) ==
    used \o [i \in 1 .. Len(results) |-> results[i].word]

\* Variant of handleRoundResultsConfirm: the next index is not taken modulo
\* the number of teams.
handleRoundResultsConfirmNoWrap(w, scores) ==
    LET state == w.gameState
        next == state.currentTeamIndex + 1
    IN  IF Len(checkWinCondition(scores, state.settings.selectedTeams,
                                 state.settings.pointsRequired)) > 0
        THEN [w EXCEPT !.stored = Null, !.screen = "game-play"]
        ELSE [w EXCEPT
                !.gameState =
                    [state EXCEPT
                        !.currentTeamIndex = next,
                        !.currentRound = IF next = 0 THEN @ + 1 ELSE @,
                        !.roundResults = <<>>,
                        !.isRoundActive = FALSE,
                        !.roundStartTime = NoTime,
                        !.currentWordIndex = 0],
                !.screen = "game-play"]

\* Variant of handleRoundResultsConfirm: every turn advance starts a new
\* round number.
handleRoundResultsConfirmCountsTurns(w, scores) ==
    LET state == w.gameState
        next == (state.currentTeamIndex + 1) % Len(state.settings.selectedTeams)
    IN  IF Len(checkWinCondition(scores, state.settings.selectedTeams,
                                 state.settings.pointsRequired)) > 0
        THEN [w EXCEPT !.stored = Null, !.screen = "game-play"]
        ELSE [w EXCEPT
                !.gameState =
                    [state EXCEPT
                        !.currentTeamIndex = next,
                        !.currentRound = @ + 1,
                        !.roundResults = <<>>,
                        !.isRoundActive = FALSE,
                        !.roundStartTime = NoTime,
                        !.currentWordIndex = 0],
                !.screen = "game-play"]

\* Variant of handleRoundResultsConfirm: the turn advances before the
\* winners are looked at.
handleRoundResultsConfirmAdvanceFirst(w, scores) ==
    LET state == w.gameState
        next == (state.currentTeamIndex + 1) % Len(state.settings.selectedTeams)
        advanced == [state EXCEPT
                        !.currentTeamIndex = next,
                        !.currentRound = IF next = 0 THEN @ + 1 ELSE @,
                        !.roundResults = <<>>,
                        !.isRoundActive = FALSE,
                        !.roundStartTime = NoTime,
                        !.currentWordIndex = 0]
    IN  IF Len(checkWinCondition(scores, state.settings.selectedTeams,
                                 state.settings.pointsRequired)) > 0
        THEN [w EXCEPT !.gameState = advanced, !.stored = Null, !.screen = "game-play"]
        ELSE [w EXCEPT !.gameState = advanced, !.screen = "game-play"]

\* App: handleRoundResultsConfirm, what it does after scoring;
\* scores is the teamScores object after the update
handleRoundResultsConfirm(w, scores) ==
    LET state == w.gameState
        next == (state.currentTeamIndex + 1) % Len(state.settings.selectedTeams)
    IN  IF Len(checkWinCondition(scores, state.settings.selectedTeams,
                                 state.settings.pointsRequired)) > 0
        THEN [w EXCEPT !.stored = Null, !.screen = "game-play"]
        ELSE [w EXCEPT
                !.gameState =
                    [state EXCEPT
                        !.currentTeamIndex = next,
                        !.currentRound = IF next = 0 THEN @ + 1 ELSE @,
                        !.roundResults = <<>>,
                        !.isRoundActive = FALSE,
                        !.roundStartTime = NoTime,
                        !.currentWordIndex = 0],
                !.screen = "game-play"]

\* App: the first statement of handleRoundEnd that can return early
roundEndIgnored(state, scores) ==
    Len(checkWinCondition(scores, state.settings.selectedTeams,
                          state.settings.pointsRequired)) > 0

-----------------------------------------------------------------------------
(* Rendering: which components are mounted, and the effects of the render *)

\* GamePlay's interval, as the gameState its callback closes over, or Null:
\* the timer effect creates it when isRoundActive && roundStartTime !== null.
timerEffect(state) ==
    IF state.isRoundActive /\ state.roundStartTime # NoTime THEN state ELSE Null

\* Every pending callback now belongs to an instance that is gone.
MarkDead(ts) == [i \in DOMAIN ts |-> [ts[i] EXCEPT !.dead = TRUE]]

\* The render after a handler turned prev into w, with its effects.
\* gsSet: the handler called setGameState.  sh: the array shuffleArray
\* returns if the auto-start effect calls startRound.
Render(prev, w, gsSet, scores, used, sh, t) ==
    LET shouldMount == w.screen = "game-play" /\ w.gameState # Null
        wasMounted == prev.gp # Null
        depsChanged ==
            \/ prev.gameState.isRoundActive # w.gameState.isRoundActive
            \/ prev.gameState.roundStartTime # w.gameState.roundStartTime
            \/ prev.gameState.settings.roundTimer # w.gameState.settings.roundTimer
        \* GamePlay mounts, unmounts or re-renders; its timer effect
        w1 == IF ~shouldMount
              THEN [w EXCEPT !.gp = Null,
                             !.tasks = IF wasMounted THEN MarkDead(w.tasks) ELSE w.tasks]
              ELSE IF ~wasMounted
              THEN [w EXCEPT !.gp = [gpFresh EXCEPT !.timer = timerEffect(w.gameState)]]
              ELSE IF depsChanged
              THEN [w EXCEPT !.gp = [w.gp EXCEPT !.timer = timerEffect(w.gameState)]]
              ELSE w
        \* GamePlay's auto-start effect
        autoStart ==
            /\ shouldMount
            /\ w1.gp.roundEndedByTimeout
            /\ ~w1.gameState.isRoundActive
            /\ Len(availableWords(w1.gameState, used)) > 0
        w2 == IF autoStart
              THEN LET w3 == startRound(
                                [w1 EXCEPT !.gp = [w1.gp EXCEPT !.roundEndedByTimeout = FALSE]],
                                scores, used, sh, t)
                   IN  [w3 EXCEPT !.gp = [w3.gp EXCEPT !.timer = timerEffect(w3.gameState)]]
              ELSE w1
        \* RoundResults: useState(results) at mount, setFinalResults(results)
        \* when the results prop is a new array
        w4 == [w2 EXCEPT !.finalResults =
                  IF w2.screen = "round-results" /\ w2.gameState # Null
                  THEN IF ~(prev.screen = "round-results" /\ prev.gameState # Null) \/ gsSet
                       THEN w2.gameState.roundResults
                       ELSE w2.finalResults
                  ELSE <<>>]
        \* App's save effect
    IN  [w4 EXCEPT !.stored =
            IF (gsSet \/ autoStart) /\ w4.gameState # Null
            THEN saveGameState(w4.gameState, scores, used)
            ELSE w4.stored]

\* The next state is the world w with the two shared objects as given.
Becomes(w, scores, used) ==
    /\ screen' = w.screen
    /\ gameState' = w.gameState
    /\ gp' = w.gp
    /\ finalResults' = w.finalResults
    /\ tasks' = w.tasks
    /\ stored' = w.stored
    /\ roundSeq' = w.roundSeq
    /\ teamScores' = scores
    /\ wordsUsed' = used

\* The arrays shuffleArray may return in the render that follows a step
Shuffles(state, used) ==
    IF state = Null THEN {<<>>} ELSE shuffleArray(availableWords(state, used))

-----------------------------------------------------------------------------
(* History.  hist.ends[r] is the number of times endRound has been called  *)
(* for round r (r = 0: by a GamePlay instance that has started no round);  *)
(* hist.confirmedSince says whether handleRoundResultsConfirm has run      *)
(* since the last round was started; hist.reloads counts the reloads,     *)
(* hist.matches the matches started; hist.exited says that handleGameEnd   *)
(* has run to its end and no match has been started since.                 *)

HistInit == [ends |-> <<>>, confirmedSince |-> FALSE, reloads |-> 0,
             matches |-> 0, exited |-> FALSE]

\* The history after a step: endedRounds are the rounds endRound was called
\* for in the step, confirmed says whether the step is a confirmation.
HistStep(endedRounds, confirmed) ==
    hist' = [hist EXCEPT
             !.ends = [r \in DOMAIN hist.ends \cup endedRounds |->
                          (IF r \in DOMAIN hist.ends THEN hist.ends[r] ELSE 0)
                          + (IF r \in endedRounds THEN 1 ELSE 0)],
             !.confirmedSince = IF roundSeq' # roundSeq THEN FALSE
                                ELSE (confirmed \/ hist.confirmedSince)]

-----------------------------------------------------------------------------
(* Initial state: the App constructed with a signed-in user and nothing   *)
(* persisted.                                                              *)

Init ==
    /\ screen = "theme-selection"
    /\ gameState = Null
    /\ teamScores = Null
    /\ wordsUsed = <<>>
    /\ gp = Null
    /\ finalResults = <<>>
    /\ tasks = <<>>
    /\ now = ClockStep
    /\ stored = Null
    /\ roundSeq = 0
    /\ scoredRounds = {}
    /\ hist = HistInit
    /\ probe = Null

-----------------------------------------------------------------------------
(* Steps *)

\* Inputs (a click, a tap, a swipe) are not arbitrarily fast: a pending
\* callback is due within 200 ms, and at most one input is made between the
\* moment it is scheduled and the moment it runs.
InputPossible == \A i \in DOMAIN tasks : ~tasks[i].seen

Seen(w) == [w EXCEPT !.tasks = [i \in DOMAIN w.tasks |-> [w.tasks[i] EXCEPT !.seen = TRUE]]]

\* App: handleThemeSelect
HandleThemeSelect ==
    /\ screen = "theme-selection"
    /\ gameState = Null
    /\ InputPossible
    /\ screen' = "game-setup"
    /\ tasks' = Seen(World).tasks
    /\ UNCHANGED <<gameState, teamScores, wordsUsed, gp, finalResults,
                   now, stored, roundSeq, scoredRounds, hist, probe>>

\* Variant of safeSettings: the settings are taken as they come.
safeSettingsUnclamped(settings) == settings

\* App.handleGameStart: safeSettings, roundTimer: Math.max(settings.roundTimer, 15)
\* (skipPenalty is a boolean already)
safeSettings(settings) ==
    [settings EXCEPT !.roundTimer = IF @ > 15 THEN @ ELSE 15]

\* GameSetup.handleStart -> App.handleGameStart.  Both branches of
\* handleGameStart (createGame succeeded or failed) build the same state.
HandleGameStart(pointsRequired, roundTimer, skipPenalty) ==
    /\ screen = "game-setup"
    /\ InputPossible
    /\ hist.matches < MaxMatches
    /\ LET settings == [theme |-> ThemeWords,
                        selectedTeams |-> <<ThemeTeams[1], ThemeTeams[2]>>,
                        pointsRequired |-> pointsRequired,
                        roundTimer |-> roundTimer,
                        skipPenalty |-> skipPenalty]
           safe == safeSettings(settings)
           newGameState == initializeGameState(safe)
           w == [World EXCEPT !.gameState = newGameState, !.screen = "game-play"]
       IN  Becomes(Render(World, w, TRUE, initialTeamScores(safe), <<>>, <<>>, now),
                   initialTeamScores(safe), <<>>)
    /\ hist' = [hist EXCEPT !.matches = @ + 1, !.exited = FALSE]
    /\ UNCHANGED <<now, scoredRounds, probe>>

\* App: the initial value of screen, of gameState and of the two objects it
\* points to, from what storage.getGameState returned
initialScreen(saved) == IF saved # Null THEN "game-play" ELSE "theme-selection"

initialGameState(saved) ==
    IF saved = Null THEN Null
    ELSE IF "state" \in DOMAIN saved THEN saved.state
    ELSE saved

initialScores(saved) ==
    IF saved # Null /\ "teamScores" \in DOMAIN saved THEN saved.teamScores ELSE Null

initialWordsUsed(saved) ==
    IF saved # Null /\ "wordsUsed" \in DOMAIN saved THEN saved.wordsUsed ELSE <<>>

\* The page is reloaded (or the process dies and the app is opened again):
\* every component and every pending callback is gone, App is constructed
\* from localStorage and rendered.
Reload ==
    /\ hist.reloads < MaxReloads
    /\ LET saved == getGameState(stored)
           closed == [World EXCEPT !.screen = "theme-selection", !.gameState = Null,
                                   !.gp = Null, !.finalResults = <<>>, !.tasks = <<>>]
           w == [closed EXCEPT !.screen = initialScreen(saved),
                               !.gameState = initialGameState(saved)]
       IN  Becomes(Render(closed, w, TRUE, initialScores(saved), initialWordsUsed(saved),
                          <<>>, now),
                   initialScores(saved), initialWordsUsed(saved))
    /\ hist' = [hist EXCEPT !.reloads = @ + 1]
    /\ UNCHANGED <<now, scoredRounds, probe>>

\* GamePlay: the Start Round button
StartRound ==
    /\ gp # Null
    /\ view(gameState, teamScores, wordsUsed) = "start-round"
    /\ InputPossible
    /\ \E sh \in Shuffles(gameState, wordsUsed) :
          Becomes(Render(World, startRound(Seen(World), teamScores, wordsUsed, sh, now),
                         TRUE, teamScores, wordsUsed, sh, now),
                  teamScores, wordsUsed)
    /\ HistStep({}, FALSE)
    /\ UNCHANGED <<now, scoredRounds, probe>>

\* GamePlay: handleWordAction (the Guessed and Skip buttons, a swipe)
HandleWordAction(guessed) ==
    /\ gp # Null
    /\ view(gameState, teamScores, wordsUsed) = "round"
    /\ gp.currentWord # ""
    /\ ~gp.isCardExiting
    /\ InputPossible
    /\ gp' = [gp EXCEPT !.isCardExiting = TRUE]
    /\ tasks' = Append(Seen(World).tasks, WordTask(guessed, gp, gameState))
    /\ UNCHANGED <<screen, gameState, teamScores, wordsUsed, finalResults,
                   now, stored, roundSeq, scoredRounds, hist, probe>>

\* GamePlay: the interval callback, when it finds no time left.  (A tick
\* with time left only refreshes the displayed seconds.)
TimeoutDue ==
    /\ gp # Null
    /\ gp.timer # Null
    /\ timeLeft(gp.timer.settings.roundTimer, gp.timer.roundStartTime, now) <= 0

TimerTick ==
    /\ TimeoutDue
    /\ LET w == endRound(World, TRUE, gp.timer, gp.roundResultsRef, TRUE, now)
       IN  \E sh \in Shuffles(gameState, wordsUsed) :
              Becomes(Render(World, w, TRUE, teamScores, wordsUsed, sh, now),
                      teamScores, wordsUsed)
    /\ HistStep({gp.rid}, FALSE)
    /\ UNCHANGED <<now, scoredRounds, probe>>

RemoveAt(s, i) == [j \in 1 .. Len(s) - 1 |-> IF j < i THEN s[j] ELSE s[j + 1]]

\* Timers fire in the order they fall due: a callback scheduled earlier with
\* a delay that is not longer fires first.
CanFire(i) ==
    /\ i \in DOMAIN tasks
    /\ \A j \in 1 .. i - 1 : tasks[j].delay > tasks[i].delay

\* The callback scheduled by handleWordAction runs
WordActionTimeout(i) ==
    /\ CanFire(i)
    /\ tasks[i].kind = "wordAction"
    /\ LET task == tasks[i]
           live == ~task.dead
           newResults == Append(task.roundResults,
                                [word |-> task.currentWord, guessed |-> task.guessed,
                                 rnd |-> task.rid])
           w0 == [World EXCEPT !.tasks = RemoveAt(tasks, i)]
           w1 == IF live
                 THEN [w0 EXCEPT !.gp = [gp EXCEPT !.roundResults = newResults,
                                                   !.roundResultsRef = newResults]]
                 ELSE w0
           nextIndex == task.state.currentWordIndex + 1
           w2 == IF nextIndex >= Len(task.roundWords)
                 THEN endRound(IF live
                               THEN [w1 EXCEPT !.gp = [w1.gp EXCEPT !.isCardExiting = FALSE]]
                               ELSE w1,
                               FALSE, task.state, newResults, live, now)
                 ELSE [w1 EXCEPT
                         !.gp = IF live
                                THEN [w1.gp EXCEPT !.currentWord = task.roundWords[nextIndex + 1]]
                                ELSE w1.gp,
                         !.gameState = [task.state EXCEPT !.currentWordIndex = nextIndex],
                         !.tasks = Append(w1.tasks, AnimationTask(task.dead))]
       IN  \E sh \in Shuffles(gameState, wordsUsed) :
              Becomes(Render(World, w2, TRUE, teamScores, wordsUsed, sh, now),
                      teamScores, wordsUsed)
    /\ HistStep(IF tasks[i].state.currentWordIndex + 1 >= Len(tasks[i].roundWords)
                THEN {tasks[i].rid} ELSE {}, FALSE)
    /\ UNCHANGED <<now, scoredRounds, probe>>

\* The callback scheduled by the one above runs
ResetAnimationTimeout(i) ==
    /\ CanFire(i)
    /\ tasks[i].kind = "resetAnimation"
    /\ tasks' = RemoveAt(tasks, i)
    /\ gp' = IF ~tasks[i].dead THEN [gp EXCEPT !.isCardExiting = FALSE] ELSE gp
    /\ UNCHANGED <<screen, gameState, teamScores, wordsUsed, finalResults,
                   now, stored, roundSeq, scoredRounds, hist, probe>>

\* The callback scheduled by endRound runs: setRoundResults, then
\* onRoundEnd = App.handleRoundEnd
RoundEndTimeout(i) ==
    /\ CanFire(i)
    /\ tasks[i].kind = "onRoundEnd"
    /\ LET task == tasks[i]
           w0 == [World EXCEPT !.tasks = RemoveAt(tasks, i)]
           w1 == IF ~task.dead
                 THEN [w0 EXCEPT !.gp = [gp EXCEPT !.roundResults = task.results]]
                 ELSE w0
           w2 == handleRoundEnd(w1, task.results, task.state, teamScores)
       IN  \E sh \in Shuffles(gameState, wordsUsed) :
              Becomes(Render(World, w2, ~roundEndIgnored(task.state, teamScores),
                             teamScores, wordsUsed, sh, now),
                      teamScores, wordsUsed)
    /\ HistStep({}, FALSE)
    /\ UNCHANGED <<now, scoredRounds, probe>>

\* App renders RoundResults
RoundResultsMounted == screen = "round-results" /\ gameState # Null

\* RoundResults: toggleWord
ToggleWord(index) ==
    /\ RoundResultsMounted
    /\ index \in DOMAIN finalResults
    /\ InputPossible
    /\ finalResults' = [finalResults EXCEPT ![index] = [@ EXCEPT !.guessed = ~@]]
    /\ tasks' = Seen(World).tasks
    /\ UNCHANGED <<screen, gameState, teamScores, wordsUsed, gp,
                   now, stored, roundSeq, scoredRounds, hist, probe>>

\* RoundResults: the Confirm button -> App.handleRoundResultsConfirm
Confirm ==
    /\ RoundResultsMounted
    /\ InputPossible
    /\ LET scores == confirmScores(gameState, teamScores, finalResults)
           used == confirmWords(wordsUsed, finalResults)
           w == handleRoundResultsConfirm(Seen(World), scores)
       IN  Becomes(Render(World, w, TRUE, scores, used, <<>>, now), scores, used)
    /\ scoredRounds' = scoredRounds \cup {finalResults[i].rnd : i \in DOMAIN finalResults}
    /\ HistStep({}, TRUE)
    /\ UNCHANGED <<now, probe>>

\* Date.now() moves on.  A pending callback is due within 200 ms and the
\* interval fires every 100 ms, both well within one ClockStep: no callback
\* stays pending over two advances, and a due timeout is seen before the
\* next one.
AdvanceClock ==
    /\ now + ClockStep <= MaxNow
    /\ ~TimeoutDue
    /\ \A i \in DOMAIN tasks : ~tasks[i].aged
    /\ now' = now + ClockStep
    /\ tasks' = [i \in DOMAIN tasks |-> [tasks[i] EXCEPT !.aged = TRUE]]
    /\ UNCHANGED <<screen, gameState, teamScores, wordsUsed, gp, finalResults,
                   stored, roundSeq, scoredRounds, hist, probe>>

Next ==
    \/ HandleThemeSelect
    \/ \E p \in PointsChoices, rt \in TimerChoices, sp \in BOOLEAN : HandleGameStart(p, rt, sp)
    \/ StartRound
    \/ \E guessed \in BOOLEAN : HandleWordAction(guessed)
    \/ TimerTick
    \/ \E i \in 1 .. Len(tasks) : WordActionTimeout(i)
    \/ \E i \in 1 .. Len(tasks) : ResetAnimationTimeout(i)
    \/ \E i \in 1 .. Len(tasks) : RoundEndTimeout(i)
    \/ \E index \in 1 .. Len(ThemeWords) : ToggleWord(index)
    \/ Confirm
    \/ AdvanceClock

Spec == Init /\ [][Next]_vars

\* The timers of the browser run: time passes, a due interval callback runs
\* and a pending setTimeout callback runs, so that again and again no
\* timeout is due and no callback is pending.  Nothing is assumed about
\* what the players do.
TimersRun ==
    /\ WF_vars(AdvanceClock)
    /\ []<>(~TimeoutDue)
    /\ []<>(tasks = <<>>)

SpecLive == Init /\ [][Next]_vars /\ TimersRun

\* The same, with reloads of the page
NextReload == Next \/ Reload

SpecReload == Init /\ [][NextReload]_vars

-----------------------------------------------------------------------------
(* Leaving a finished match.  The New Game button of GamePlay's game-over  *)
(* view calls handleGameEnd, which awaits updateGame when the match has a  *)
(* remote id and then clears the match.                                    *)

\* The rest of handleGameEnd, waiting for updateGame to settle.  The wait is
\* not a timeout of the app: it ends before or after any of them.
GameEndTask ==
    [kind |-> "gameEnd", delay |-> 1000, dead |-> FALSE, aged |-> FALSE, seen |-> FALSE]

\* App's sync effect, with the setTimeout(..., 0) it schedules: a persisted
\* match is taken up when there is none in memory
syncEffect(w) ==
    LET saved == getGameState(w.stored)
    IN  IF w.gameState = Null /\ saved # Null
        THEN [w EXCEPT !.gameState = initialGameState(saved), !.screen = "game-play"]
        ELSE w

\* GamePlay: the New Game button.  awaits: the match has a remote id, so
\* handleGameEnd stops at await updateGame(...); otherwise it runs through.
HandleGameEnd(awaits) ==
    /\ gp # Null
    /\ view(gameState, teamScores, wordsUsed) = "game-over"
    /\ InputPossible
    /\ IF awaits
       THEN /\ tasks' = Append(Seen(World).tasks, GameEndTask)
            /\ UNCHANGED <<screen, gameState, teamScores, wordsUsed, gp, finalResults,
                           stored, roundSeq, hist>>
       ELSE /\ Becomes(Render(World, syncEffect(handleGameEnd(Seen(World))), TRUE,
                              teamScores, wordsUsed, <<>>, now),
                       teamScores, wordsUsed)
            /\ hist' = [hist EXCEPT !.exited = TRUE]
    /\ UNCHANGED <<now, scoredRounds, probe>>

\* updateGame has settled (fulfilled or rejected): handleGameEnd goes on
GameEndResolved(i) ==
    /\ i \in DOMAIN tasks
    /\ tasks[i].kind = "gameEnd"
    /\ LET w0 == [World EXCEPT !.tasks = RemoveAt(tasks, i)]
       IN  Becomes(Render(World, syncEffect(handleGameEnd(w0)), TRUE,
                          teamScores, wordsUsed, <<>>, now),
                   teamScores, wordsUsed)
    /\ hist' = [hist EXCEPT !.exited = TRUE]
    /\ UNCHANGED <<now, scoredRounds, probe>>

NextEnd ==
    \/ Next
    \/ Reload
    \/ \E awaits \in BOOLEAN : HandleGameEnd(awaits)
    \/ \E i \in 1 .. Len(tasks) : GameEndResolved(i)

SpecEnd == Init /\ [][NextEnd]_vars

-----------------------------------------------------------------------------
(* checkWinCondition on its own: Init draws a score table and a threshold, *)
(* the one step applies the function.                                      *)

InitWin ==
    /\ screen = "theme-selection"
    /\ gameState = Null
    /\ teamScores = Null
    /\ wordsUsed = <<>>
    /\ gp = Null
    /\ finalResults = <<>>
    /\ tasks = <<>>
    /\ now = ClockStep
    /\ stored = Null
    /\ roundSeq = 0
    /\ scoredRounds = {}
    /\ hist = HistInit
    /\ \E s \in [Range(ProbeTeams) -> ProbeScores], p \in ProbePoints :
          probe = [scores |-> s, pointsRequired |-> p, called |-> FALSE, result |-> <<>>]

CheckWin ==
    /\ ~probe.called
    /\ probe' = [probe EXCEPT
                    !.called = TRUE,
                    !.result = checkWinCondition(probe.scores, ProbeTeams,
                                                 probe.pointsRequired)]
    /\ UNCHANGED <<screen, gameState, teamScores, wordsUsed, gp, finalResults,
                   tasks, now, stored, roundSeq, scoredRounds, hist>>

NextWin == CheckWin

SpecWin == InitWin /\ [][NextWin]_vars

-----------------------------------------------------------------------------
(* Turn rotation on its own: Init draws a match state (2 or 3 teams, any   *)
(* team's turn, any round number, round active or not, a pending log or    *)
(* none) in which no team has reached pointsRequired; each step advances   *)
(* the turn, by handleRoundResultsConfirm or by the empty-log branch of    *)
(* handleRoundEnd, at most as many times as there are teams.               *)

ProbeStates ==
    {[initializeGameState([theme |-> ThemeWords,
                           selectedTeams |-> SubSeq(ProbeTeams, 1, n),
                           pointsRequired |-> MaxProbePoints,
                           roundTimer |-> 15,
                           skipPenalty |-> TRUE])
        EXCEPT !.currentTeamIndex = idx,
               !.currentRound = round,
               !.isRoundActive = active,
               !.roundStartTime = IF active THEN ClockStep ELSE NoTime,
               !.roundResults = log] :
        n \in 2 .. Len(ProbeTeams), idx \in 0 .. Len(ProbeTeams) - 1,
        round \in 1 .. MaxProbeRound, active \in BOOLEAN,
        log \in {<<>>, <<[word |-> ThemeWords[1], guessed |-> TRUE, rnd |-> 1]>>}}

InitTurn ==
    /\ screen = "theme-selection"
    /\ gameState = Null
    /\ teamScores = Null
    /\ wordsUsed = <<>>
    /\ gp = Null
    /\ finalResults = <<>>
    /\ tasks = <<>>
    /\ now = ClockStep
    /\ stored = Null
    /\ roundSeq = 0
    /\ scoredRounds = {}
    /\ hist = HistInit
    /\ \E st \in ProbeStates :
          /\ st.currentTeamIndex < Len(st.settings.selectedTeams)
          /\ probe = [w |-> [World EXCEPT !.gameState = st, !.screen = "round-results"],
                      scores |-> initialTeamScores(st.settings),
                      from |-> st,
                      advances |-> 0]

\* handleRoundResultsConfirm with a log worth 0 points
AdvanceByConfirm ==
    /\ probe.advances < Len(probe.from.settings.selectedTeams)
    /\ probe' = [probe EXCEPT
                    !.w = handleRoundResultsConfirm(
                             [probe.w EXCEPT !.screen = "round-results"],
                             confirmScores(probe.w.gameState, probe.scores, <<>>)),
                    !.advances = @ + 1]
    /\ UNCHANGED <<screen, gameState, teamScores, wordsUsed, gp, finalResults,
                   tasks, now, stored, roundSeq, scoredRounds, hist>>

\* handleRoundEnd with an empty log
AdvanceByEmptyRound ==
    /\ probe.advances < Len(probe.from.settings.selectedTeams)
    /\ probe' = [probe EXCEPT
                    !.w = handleRoundEnd(probe.w, <<>>, probe.w.gameState, probe.scores),
                    !.advances = @ + 1]
    /\ UNCHANGED <<screen, gameState, teamScores, wordsUsed, gp, finalResults,
                   tasks, now, stored, roundSeq, scoredRounds, hist>>

NextTurn == AdvanceByConfirm \/ AdvanceByEmptyRound

SpecTurn == InitTurn /\ [][NextTurn]_vars

-----------------------------------------------------------------------------
(* storage.getGameState and the construction of App on their own: Init     *)
(* draws what localStorage holds (nothing, a text JSON.parse rejects, an   *)
(* object that is no GameState, or a saved match); the steps call          *)
(* getGameState, at most twice, and open the app.                          *)

PersistedItems ==
    {Null, Unparseable, Corrupt} \cup
    {saveGameState(st, initialTeamScores(st.settings), used) :
        st \in {s \in ProbeStates : s.currentTeamIndex < Len(s.settings.selectedTeams)},
        used \in {<<>>, <<ThemeWords[1]>>}}

InitRestore ==
    /\ screen = "theme-selection"
    /\ gameState = Null
    /\ teamScores = Null
    /\ wordsUsed = <<>>
    /\ gp = Null
    /\ finalResults = <<>>
    /\ tasks = <<>>
    /\ now = ClockStep
    /\ stored \in PersistedItems
    /\ roundSeq = 0
    /\ scoredRounds = {}
    /\ hist = HistInit
    /\ probe = [returned |-> <<>>, started |-> FALSE, threw |-> FALSE]

\* storage.getGameState()
GetGameState ==
    /\ Len(probe.returned) < 2
    /\ probe' = [probe EXCEPT !.returned = Append(@, getGameState(stored))]
    /\ UNCHANGED <<screen, gameState, teamScores, wordsUsed, gp, finalResults,
                   tasks, now, stored, roundSeq, scoredRounds, hist>>

\* GamePlay's render reads gameState.settings.theme: a TypeError when the
\* value has no settings
renderThrows(state) == state # Null /\ "settings" \notin DOMAIN state

\* The app is opened: App is constructed from localStorage and rendered.
\* When the render throws nothing is mounted and no effect runs.
AppStart ==
    /\ ~probe.started
    /\ LET saved == getGameState(stored)
           closed == [World EXCEPT !.screen = "theme-selection", !.gameState = Null,
                                   !.gp = Null, !.finalResults = <<>>, !.tasks = <<>>]
           w == [closed EXCEPT !.screen = initialScreen(saved),
                               !.gameState = initialGameState(saved)]
       IN  IF renderThrows(w.gameState)
           THEN /\ Becomes(w, initialScores(saved), initialWordsUsed(saved))
                /\ probe' = [probe EXCEPT !.started = TRUE, !.threw = TRUE]
           ELSE /\ Becomes(Render(closed, w, TRUE, initialScores(saved),
                                  initialWordsUsed(saved), <<>>, now),
                           initialScores(saved), initialWordsUsed(saved))
                /\ probe' = [probe EXCEPT !.started = TRUE]
    /\ UNCHANGED <<now, scoredRounds, hist>>

NextRestore == GetGameState \/ AppStart

SpecRestore == InitRestore /\ [][NextRestore]_vars

-----------------------------------------------------------------------------
(* The start of a match on its own: Init draws the settings GameSetup      *)
(* holds when Start is pressed (1 to 3 teams, a round timer below, at or   *)
(* above the minimum); the one step is handleStart, which hands them to    *)
(* handleGameStart or returns.                                             *)

SetupTimers == {5, 10, 15, 30, 60}

InitSetup ==
    /\ screen = "game-setup"
    /\ gameState = Null
    /\ teamScores = Null
    /\ wordsUsed = <<>>
    /\ gp = Null
    /\ finalResults = <<>>
    /\ tasks = <<>>
    /\ now = ClockStep
    /\ stored = Null
    /\ roundSeq = 0
    /\ scoredRounds = {}
    /\ hist = HistInit
    /\ \E n \in 1 .. Len(ProbeTeams), p \in ProbePoints, rt \in SetupTimers,
          sp \in BOOLEAN :
          probe = [settings |-> [theme |-> ThemeWords,
                                 selectedTeams |-> SubSeq(ProbeTeams, 1, n),
                                 pointsRequired |-> p,
                                 roundTimer |-> rt,
                                 skipPenalty |-> sp],
                   pressed |-> FALSE,
                   created |-> Null]

\* GameSetup.handleStart and, through onStart, App.handleGameStart
HandleStart ==
    /\ ~probe.pressed
    /\ probe' = [probe EXCEPT
                    !.pressed = TRUE,
                    !.created = IF Len(probe.settings.selectedTeams) < 2
                                THEN Null
                                ELSE initializeGameState(safeSettings(probe.settings))]
    /\ UNCHANGED <<screen, gameState, teamScores, wordsUsed, gp, finalResults,
                   tasks, now, stored, roundSeq, scoredRounds, hist>>

NextSetup == HandleStart

SpecSetup == InitSetup /\ [][NextSetup]_vars

-----------------------------------------------------------------------------
(* The remote ledger on its own: Init draws a situation of the app (the    *)
(* setup screen, or a match with or without a remote id, with or without a *)
(* pending log, one point short of pointsRequired or not); each step runs  *)
(* one handler that calls createGame or updateGame, once with the call     *)
(* fulfilled and once with it rejected, and keeps both results.            *)

RemoteOutcomes == {"fulfilled", "rejected"}

\* Variant of handleGameStart: no match is created when createGame fails.
handleGameStartNoFallback(w, settings, outcome) ==
    IF outcome = "fulfilled"
    THEN [w |-> [w EXCEPT !.gameState = initializeGameState(safeSettings(settings)),
                          !.screen = "game-play"],
          gameId |-> "remote"]
    ELSE [w |-> w, gameId |-> Null]

\* App.handleGameStart: the try branch (createGame fulfilled, the id is the
\* remote one) and the catch branch (a local id)
handleGameStart(w, settings, outcome) ==
    IF outcome = "fulfilled"
    THEN [w |-> [w EXCEPT !.gameState = initializeGameState(safeSettings(settings)),
                          !.screen = "game-play"],
          gameId |-> "remote"]
    ELSE [w |-> [w EXCEPT !.gameState = initializeGameState(safeSettings(settings)),
                          !.screen = "game-play"],
          gameId |-> "local"]

\* App.updateGameViaAPI, called without await: what it leaves of the local
\* state r.  It returns at once for a local id; otherwise it awaits
\* updateGame, and its catch only logs.
updateGameViaAPI(r, outcome) ==
    IF r.gameId # "remote" THEN r
    ELSE IF outcome = "fulfilled" THEN r
    ELSE r

\* The four handlers, each with the outcome of its remote call
remoteConfirm(r, scores, outcome) ==
    LET after == confirmScores(r.w.gameState, scores, r.w.gameState.roundResults)
        done == updateGameViaAPI([r EXCEPT !.w = handleRoundResultsConfirm(r.w, after)],
                                 outcome)
    IN  [w |-> done.w, gameId |-> done.gameId, scores |-> after]

remoteEmptyAdvance(r, scores, outcome) ==
    LET done == updateGameViaAPI(
                    [r EXCEPT !.w = handleRoundEnd(r.w, <<>>, r.w.gameState, scores)],
                    outcome)
    IN  [w |-> done.w, gameId |-> done.gameId, scores |-> scores]

remoteGameEnd(r, scores, outcome) ==
    LET awaited == updateGameViaAPI(r, outcome)
    IN  [w |-> handleGameEnd(awaited.w), gameId |-> Null, scores |-> scores]

remoteGameStart(r, settings, outcome) ==
    LET started == handleGameStart(r.w, settings, outcome)
    IN  [w |-> started.w, gameId |-> started.gameId,
         scores |-> initialTeamScores(safeSettings(settings))]

InitRemote ==
    /\ screen = "theme-selection"
    /\ gameState = Null
    /\ teamScores = Null
    /\ wordsUsed = <<>>
    /\ gp = Null
    /\ finalResults = <<>>
    /\ tasks = <<>>
    /\ now = ClockStep
    /\ stored = Null
    /\ roundSeq = 0
    /\ scoredRounds = {}
    /\ hist = HistInit
    /\ \/ probe = [r |-> [w |-> [World EXCEPT !.screen = "game-setup"], gameId |-> Null],
                   scores |-> Null, handler |-> "none",
                   fulfilled |-> Null, rejected |-> Null]
       \/ \E st \in ProbeStates, id \in {"remote", "local"}, lead \in BOOLEAN :
             /\ st.currentTeamIndex < Len(st.settings.selectedTeams)
             /\ probe = [r |-> [w |-> [World EXCEPT
                                          !.gameState = st,
                                          !.screen = IF Len(st.roundResults) > 0
                                                     THEN "round-results"
                                                     ELSE "game-play"],
                                gameId |-> id],
                         scores |-> [t \in Range(st.settings.selectedTeams) |->
                                        IF lead /\ t = getCurrentTeam(st)
                                        THEN st.settings.pointsRequired - 1 ELSE 0],
                         handler |-> "none",
                         fulfilled |-> Null, rejected |-> Null]

\* GameSetup's Start with createGame fulfilled / rejected
RemoteGameStart(pointsRequired, roundTimer, skipPenalty) ==
    /\ probe.handler = "none"
    /\ probe.r.w.gameState = Null
    /\ LET settings == [theme |-> ThemeWords,
                        selectedTeams |-> ThemeTeams,
                        pointsRequired |-> pointsRequired,
                        roundTimer |-> roundTimer,
                        skipPenalty |-> skipPenalty]
       IN  probe' = [probe EXCEPT
                        !.handler = "handleGameStart",
                        !.fulfilled = remoteGameStart(probe.r, settings, "fulfilled"),
                        !.rejected = remoteGameStart(probe.r, settings, "rejected")]
    /\ UNCHANGED <<screen, gameState, teamScores, wordsUsed, gp, finalResults,
                   tasks, now, stored, roundSeq, scoredRounds, hist>>

\* The confirmation of the pending log with updateGame fulfilled / rejected
RemoteConfirm ==
    /\ probe.handler = "none"
    /\ probe.r.w.gameState # Null
    /\ probe.r.w.screen = "round-results"
    /\ probe' = [probe EXCEPT
                    !.handler = "handleRoundResultsConfirm",
                    !.fulfilled = remoteConfirm(probe.r, probe.scores, "fulfilled"),
                    !.rejected = remoteConfirm(probe.r, probe.scores, "rejected")]
    /\ UNCHANGED <<screen, gameState, teamScores, wordsUsed, gp, finalResults,
                   tasks, now, stored, roundSeq, scoredRounds, hist>>

\* handleRoundEnd with an empty log
RemoteEmptyAdvance ==
    /\ probe.handler = "none"
    /\ probe.r.w.gameState # Null
    /\ probe.r.w.screen = "game-play"
    /\ probe' = [probe EXCEPT
                    !.handler = "handleRoundEnd",
                    !.fulfilled = remoteEmptyAdvance(probe.r, probe.scores, "fulfilled"),
                    !.rejected = remoteEmptyAdvance(probe.r, probe.scores, "rejected")]
    /\ UNCHANGED <<screen, gameState, teamScores, wordsUsed, gp, finalResults,
                   tasks, now, stored, roundSeq, scoredRounds, hist>>

\* handleGameEnd
RemoteGameEnd ==
    /\ probe.handler = "none"
    /\ probe.r.w.gameState # Null
    /\ probe.r.w.screen = "game-play"
    /\ probe' = [probe EXCEPT
                    !.handler = "handleGameEnd",
                    !.fulfilled = remoteGameEnd(probe.r, probe.scores, "fulfilled"),
                    !.rejected = remoteGameEnd(probe.r, probe.scores, "rejected")]
    /\ UNCHANGED <<screen, gameState, teamScores, wordsUsed, gp, finalResults,
                   tasks, now, stored, roundSeq, scoredRounds, hist>>

NextRemote ==
    \/ \E p \in PointsChoices, rt \in TimerChoices, sp \in BOOLEAN : RemoteGameStart(p, rt, sp)
    \/ RemoteConfirm
    \/ RemoteEmptyAdvance
    \/ RemoteGameEnd

SpecRemote == InitRemote /\ [][NextRemote]_vars

-----------------------------------------------------------------------------
(* The remaining time on its own: Init draws a state (round active or not, *)
(* roundStartTime set or not, a round timer) and an instant Date.now() at  *)
(* or after the start; the one step computes getRemainingTime, GamePlay's  *)
(* remainingTime and the value of the interval callback.                   *)

\* Milliseconds between roundStartTime and Date.now()
ElapsedChoices ==
    {0, 1, 999, 1000, 1001, 14000, 14001, 14999, 15000, 15001, 29999, 30000, 31000}

\* Variant of getRemainingTime: the remaining seconds are rounded down.
getRemainingTimeFloor(state, t) ==
    IF state.roundStartTime = NoTime \/ state.roundStartTime = 0 \/ ~state.isRoundActive
    THEN 0
    ELSE LET remaining == state.settings.roundTimer
                          - Ceil(t - state.roundStartTime, 1000)
         IN  IF remaining > 0 THEN remaining ELSE 0

\* game.ts: getRemainingTime at Date.now() = t.  elapsed is a number of
\* seconds with a fraction; Math.ceil(roundTimer - elapsed) is roundTimer
\* minus the whole seconds elapsed.
getRemainingTime(state, t) ==
    IF state.roundStartTime = NoTime \/ state.roundStartTime = 0 \/ ~state.isRoundActive
    THEN 0
    ELSE LET remaining == state.settings.roundTimer
                          - ((t - state.roundStartTime) \div 1000)
         IN  IF remaining > 0 THEN remaining ELSE 0

\* GamePlay: remainingTime, computed in every render
remainingTime(state, t) ==
    IF state.isRoundActive /\ state.roundStartTime # NoTime /\ state.roundStartTime # 0
    THEN timeLeft(state.settings.roundTimer, state.roundStartTime, t)
    ELSE 0

InitClock ==
    /\ screen = "theme-selection"
    /\ gameState = Null
    /\ teamScores = Null
    /\ wordsUsed = <<>>
    /\ gp = Null
    /\ finalResults = <<>>
    /\ tasks = <<>>
    /\ stored = Null
    /\ roundSeq = 0
    /\ scoredRounds = {}
    /\ hist = HistInit
    /\ \E st \in ProbeStates, start \in {NoTime, ClockStep, ClockStep + 1},
          rt \in {15, 30}, d \in ElapsedChoices :
          /\ st.currentTeamIndex = 0
          /\ st.currentRound = 1
          /\ Len(st.settings.selectedTeams) = 2
          /\ st.roundResults = <<>>
          /\ now = (IF start = NoTime THEN ClockStep ELSE start) + d
          /\ probe = [state |-> [st EXCEPT !.roundStartTime = start,
                                           !.settings.roundTimer = rt],
                      called |-> FALSE, remaining |-> 0, inline |-> 0, tick |-> 0]

\* The three computations at Date.now() = now
ComputeTime ==
    /\ ~probe.called
    /\ probe' = [probe EXCEPT
                    !.called = TRUE,
                    !.remaining = getRemainingTime(probe.state, now),
                    !.inline = remainingTime(probe.state, now),
                    !.tick = IF timerEffect(probe.state) # Null
                             THEN timeLeft(probe.state.settings.roundTimer,
                                           probe.state.roundStartTime, now)
                             ELSE 0]
    /\ UNCHANGED <<screen, gameState, teamScores, wordsUsed, gp, finalResults,
                   tasks, now, stored, roundSeq, scoredRounds, hist>>

NextClock == ComputeTime

SpecClock == InitClock /\ [][NextClock]_vars

-----------------------------------------------------------------------------
(* shuffleArray called on arrays of up to MaxShuffleLen items, duplicates
   included.  probe.array is the caller's array, probe.shuffled the array
   the call returned. *)

ShuffleItems == {"a", "b", "c"}

ShuffleInputs ==
    UNION {[1 .. n -> ShuffleItems] : n \in 0 .. MaxShuffleLen}

\* const shuffled = [...array]: the loop swaps in the copy, the caller's
\* array is what it was.
shuffleArrayCall(array) ==
    {[array |-> array, shuffled |-> r] : r \in shuffleArray(array)}

InitShuffle ==
    /\ screen = "theme-selection"
    /\ gameState = Null
    /\ teamScores = Null
    /\ wordsUsed = <<>>
    /\ gp = Null
    /\ finalResults = <<>>
    /\ tasks = <<>>
    /\ stored = Null
    /\ roundSeq = 0
    /\ scoredRounds = {}
    /\ hist = HistInit
    /\ now = ClockStep
    /\ \E a \in ShuffleInputs :
          probe = [input |-> a, array |-> a, shuffled |-> <<>>, called |-> FALSE]

CallShuffle ==
    /\ ~probe.called
    /\ \E c \in shuffleArrayCall(probe.array) :
          probe' = [probe EXCEPT !.called = TRUE, !.array = c.array,
                                 !.shuffled = c.shuffled]
    /\ UNCHANGED <<screen, gameState, teamScores, wordsUsed, gp, finalResults,
                   tasks, now, stored, roundSeq, scoredRounds, hist>>

NextShuffle == CallShuffle

SpecShuffle == InitShuffle /\ [][NextShuffle]_vars

-----------------------------------------------------------------------------
(* initializeGameState on its own: Init draws the settings, the step makes  *)
(* the state.  probe.made holds the record, the teamScores object and the   *)
(* wordsUsed array of the returned GameState.                               *)

InitializeSettings ==
    {[theme |-> ThemeWords, selectedTeams |-> teams, pointsRequired |-> p,
      roundTimer |-> rt, skipPenalty |-> sp] :
        teams \in UNION {[1 .. n -> Range(ProbeTeams)] : n \in 1 .. Len(ProbeTeams)},
        p \in ProbePoints, rt \in SetupTimers, sp \in BOOLEAN}

InitInitialize ==
    /\ screen = "game-setup"
    /\ gameState = Null
    /\ teamScores = Null
    /\ wordsUsed = <<>>
    /\ gp = Null
    /\ finalResults = <<>>
    /\ tasks = <<>>
    /\ now = ClockStep
    /\ stored = Null
    /\ roundSeq = 0
    /\ scoredRounds = {}
    /\ hist = HistInit
    /\ \E settings \in InitializeSettings :
          probe = [settings |-> settings, made |-> Null]

InitializeGameState ==
    /\ probe.made = Null
    /\ probe' = [probe EXCEPT !.made =
                    [state |-> initializeGameState(probe.settings),
                     teamScores |-> initialTeamScores(probe.settings),
                     wordsUsed |-> <<>>]]
    /\ UNCHANGED <<screen, gameState, teamScores, wordsUsed, gp, finalResults,
                   tasks, now, stored, roundSeq, scoredRounds, hist>>

NextInitialize == InitializeGameState

SpecInitialize == InitInitialize /\ [][NextInitialize]_vars

-----------------------------------------------------------------------------
(* GameSetup's team selection on its own: Init draws the theme's team list  *)
(* (distinct names, at least two) and mounts GameSetup; the steps toggle    *)
(* teams and press Start.  In the largest theme a team that is not selected *)
(* is toggled on only when the teams listed before it are selected (the     *)
(* names beyond the first are interchangeable); any selected team may be    *)
(* toggled off, MaxRemovals times in a run.                                 *)

\* Number of times a team is taken out of the selection.
MaxRemovals == 3

\* Number of teams in the largest theme: one more than can be selected.
MaxThemeTeams == 11

SetupTeamNames == <<"A", "B", "C", "D", "E", "F", "G", "H", "I", "J", "K", "L">>

SetupThemes ==
    {SubSeq(SetupTeamNames, 1, n) : n \in {2, 3, 4, MaxThemeTeams}}

\* GameSetup: useState([theme.teams[0], theme.teams[1] || theme.teams[0]])
initialSelection(teams) ==
    <<teams[1], IF Len(teams) >= 2 /\ teams[2] # "" THEN teams[2] ELSE teams[1]>>

\* Variant of toggleTeam: a selected team is removed whatever the number
\* selected.
toggleTeamNoMinimum(selectedTeams, team) ==
    IF team \in Range(selectedTeams)
    THEN Filter(selectedTeams, Range(selectedTeams) \ {team})
    ELSE IF Len(selectedTeams) < 10
         THEN Append(selectedTeams, team)
         ELSE selectedTeams

\* GameSetup: toggleTeam
toggleTeam(selectedTeams, team) ==
    IF team \in Range(selectedTeams)
    THEN IF Len(selectedTeams) > 2
         THEN Filter(selectedTeams, Range(selectedTeams) \ {team})
         ELSE selectedTeams
    ELSE IF Len(selectedTeams) < 10
         THEN Append(selectedTeams, team)
         ELSE selectedTeams

InitTeams ==
    /\ screen = "game-setup"
    /\ gameState = Null
    /\ teamScores = Null
    /\ wordsUsed = <<>>
    /\ gp = Null
    /\ finalResults = <<>>
    /\ tasks = <<>>
    /\ now = ClockStep
    /\ stored = Null
    /\ roundSeq = 0
    /\ scoredRounds = {}
    /\ hist = HistInit
    /\ \E teams \in SetupThemes :
          probe = [teams |-> teams, selectedTeams |-> initialSelection(teams),
                   toggled |-> FALSE, removals |-> 0, onStart |-> Null]

\* The buttons GameSetup offers: one per team of the theme
Toggleable(team) ==
    \E k \in DOMAIN probe.teams :
        /\ probe.teams[k] = team
        /\ \/ Len(probe.teams) < MaxThemeTeams
           \/ team \in Range(probe.selectedTeams)
           \/ \A j \in 1 .. (k - 1) : probe.teams[j] \in Range(probe.selectedTeams)

ToggleTeam(team) ==
    /\ Toggleable(team)
    /\ Len(toggleTeam(probe.selectedTeams, team)) < Len(probe.selectedTeams) =>
          probe.removals < MaxRemovals
    /\ probe' = [probe EXCEPT !.selectedTeams = toggleTeam(@, team),
                              !.toggled = TRUE,
                              !.removals =
                                  IF Len(toggleTeam(probe.selectedTeams, team))
                                        < Len(probe.selectedTeams)
                                  THEN @ + 1 ELSE @,
                              !.onStart = Null]
    /\ UNCHANGED <<screen, gameState, teamScores, wordsUsed, gp, finalResults,
                   tasks, now, stored, roundSeq, scoredRounds, hist>>

\* GameSetup: handleStart; probe.onStart is the selectedTeams of the settings
\* handed to onStart
HandleStartSelected ==
    /\ probe.onStart = Null
    /\ Len(probe.selectedTeams) >= 2
    /\ probe' = [probe EXCEPT !.onStart = probe.selectedTeams]
    /\ UNCHANGED <<screen, gameState, teamScores, wordsUsed, gp, finalResults,
                   tasks, now, stored, roundSeq, scoredRounds, hist>>

NextTeams ==
    \/ \E team \in Range(SetupTeamNames) : ToggleTeam(team)
    \/ HandleStartSelected

SpecTeams == InitTeams /\ [][NextTeams]_vars

-----------------------------------------------------------------------------
(* The confirmation screen on its own: Init draws the outcome log handed to *)
(* RoundResults and the skipPenalty setting of the match; the steps toggle  *)
(* words and press Confirm.  probe.applied is the change Confirm made to    *)
(* the score of the team whose turn it is.                                  *)

\* Longest outcome log handed to the confirmation screen on its own.
MaxLogLen == 4

LogWords == <<"w1", "w2", "w3", "w4", "w5">>

OutcomeLogs ==
    UNION {{[i \in 1 .. n |-> [word |-> LogWords[i], guessed |-> g[i], rnd |-> 1]] :
                g \in [1 .. n -> BOOLEAN]} : n \in 0 .. MaxLogLen}

\* Variant of earned: the skipPenalty prop is not looked at (RoundResults
\* before it had the prop).
earnedWithoutProp(final, skipPenalty) ==
    LET guessedCount == Cardinality({i \in DOMAIN final : final[i].guessed})
        skippedCount == Len(final) - guessedCount
    IN  guessedCount - skippedCount

\* RoundResults: earned, from guessedCount and skippedCount
earned(final, skipPenalty) ==
    LET guessedCount == Cardinality({i \in DOMAIN final : final[i].guessed})
        skippedCount == Len(final) - guessedCount
    IN  IF skipPenalty THEN guessedCount - skippedCount ELSE guessedCount

\* RoundResults: toggleWord
toggleWord(final, index) ==
    [final EXCEPT ![index] = [@ EXCEPT !.guessed = ~@]]

InitResults ==
    /\ screen = "round-results"
    /\ gameState = Null
    /\ teamScores = Null
    /\ wordsUsed = <<>>
    /\ gp = Null
    /\ finalResults = <<>>
    /\ tasks = <<>>
    /\ now = ClockStep
    /\ stored = Null
    /\ roundSeq = 0
    /\ scoredRounds = {}
    /\ hist = HistInit
    /\ \E results \in OutcomeLogs, sp \in BOOLEAN, idx \in {0, 1} :
          probe = [state |-> [initializeGameState(
                                 [theme |-> ThemeWords,
                                  selectedTeams |-> <<"A", "B">>,
                                  pointsRequired |-> MaxProbePoints,
                                  roundTimer |-> 15,
                                  skipPenalty |-> sp])
                              EXCEPT !.currentTeamIndex = idx,
                                     !.roundResults = results],
                   finalResults |-> results,
                   toggles |-> 0,
                   shown |-> earned(results, sp),
                   applied |-> Null]

\* RoundResults: toggleWord, and the render after it
ToggleWordShown(index) ==
    /\ probe.applied = Null
    /\ index \in DOMAIN probe.finalResults
    /\ probe.toggles < MaxLogLen
    /\ LET updated == toggleWord(probe.finalResults, index)
       IN  probe' = [probe EXCEPT
                        !.finalResults = updated,
                        !.toggles = @ + 1,
                        !.shown = earned(updated, probe.state.settings.skipPenalty)]
    /\ UNCHANGED <<screen, gameState, teamScores, wordsUsed, gp, finalResults,
                   tasks, now, stored, roundSeq, scoredRounds, hist>>

\* The Confirm button: onConfirm(finalResults) = handleRoundResultsConfirm
ConfirmShown ==
    /\ probe.applied = Null
    /\ LET scores == initialTeamScores(probe.state.settings)
           team == getCurrentTeam(probe.state)
       IN  probe' = [probe EXCEPT !.applied =
                        [change |-> confirmScores(probe.state, scores,
                                                  probe.finalResults)[team]
                                    - scores[team]]]
    /\ UNCHANGED <<screen, gameState, teamScores, wordsUsed, gp, finalResults,
                   tasks, now, stored, roundSeq, scoredRounds, hist>>

NextResults ==
    \/ \E index \in 1 .. MaxLogLen : ToggleWordShown(index)
    \/ ConfirmShown

SpecResults == InitResults /\ [][NextResults]_vars

-----------------------------------------------------------------------------
(* Properties *)

Guessed(results) == Cardinality({i \in DOMAIN results : results[i].guessed})

Skipped(results) == Cardinality({i \in DOMAIN results : ~results[i].guessed})

Words(results) == {results[i].word : i \in DOMAIN results}

\* C1: a confirmation changes the score of the team whose turn it is by
\* guessed - skipped when skipPenalty is on and by guessed when it is off,
\* whatever the outcome log on the confirmation screen; no other score moves.
C1_ScoreDelta ==
    [][Confirm =>
        LET team == getCurrentTeam(gameState)
            delta == IF gameState.settings.skipPenalty
                     THEN Guessed(finalResults) - Skipped(finalResults)
                     ELSE Guessed(finalResults)
        IN  /\ teamScores'[team] = teamScores[team] + delta
            /\ \A t \in DOMAIN teamScores :
                   t # team => teamScores'[t] = teamScores[t]]_vars

\* C1 witness: with skipPenalty off, a log of one guessed and one skipped word
\* has been confirmed for team A and is worth 1 point, not 0.
C1_Witness ==
    /\ gameState # Null
    /\ ~gameState.settings.skipPenalty
    /\ Len(wordsUsed) = 2
    /\ scoredRounds = {1}
    /\ teamScores["A"] = 1
    /\ teamScores["B"] = 0

\* C2: when a confirmation brings the current team to pointsRequired or more,
\* that team is among the winners of the state right after the confirmation,
\* the winner view is shown, and currentTeamIndex and currentRound are the
\* ones from before the confirmation.
C2_WinBeforeAdvance ==
    [][(Confirm /\ teamScores'[getCurrentTeam(gameState)]
                      >= gameState.settings.pointsRequired) =>
        /\ gameState'.currentTeamIndex = gameState.currentTeamIndex
        /\ gameState'.currentRound = gameState.currentRound
        /\ screen' = "game-play"
        /\ getCurrentTeam(gameState) \in Range(winners(gameState', teamScores', wordsUsed'))
        /\ view(gameState', teamScores', wordsUsed') = "game-over"]_vars

\* C2 witness: team B, second in turn, has just reached pointsRequired by a
\* confirmation; the turn is still B's.
C2_Witness ==
    /\ gameState # Null
    /\ screen = "game-play"
    /\ gameState.currentTeamIndex = 1
    /\ teamScores["B"] >= gameState.settings.pointsRequired
    /\ teamScores["A"] < gameState.settings.pointsRequired
    /\ winners(gameState, teamScores, wordsUsed) = <<"B">>

\* C3: checkWinCondition returns exactly the teams whose score is at least
\* pointsRequired and equal to the highest score; the result is empty exactly
\* when no team has reached pointsRequired.
C3_CheckWinCondition ==
    probe.called =>
        LET top == {t \in Range(ProbeTeams) :
                      \A u \in Range(ProbeTeams) : probe.scores[u] <= probe.scores[t]}
        IN  /\ Range(probe.result)
                 = {t \in top : probe.scores[t] >= probe.pointsRequired}
            /\ Len(probe.result) = Cardinality(Range(probe.result))
            /\ (probe.result = <<>>)
                 <=> (\A t \in Range(ProbeTeams) :
                         probe.scores[t] < probe.pointsRequired)

\* C3 witness: two teams tie above the threshold, a third team has reached
\* the threshold with a lower score; the two win together.
C3_Witness ==
    /\ probe.called
    /\ probe.pointsRequired = 2
    /\ probe.scores["A"] = 3
    /\ probe.scores["B"] = 3
    /\ probe.scores["C"] = 2
    /\ probe.result = <<"A", "B">>

\* C4: with an empty available pool, startRound changes nothing, GamePlay
\* shows the game-over view (there is no Start Round button), the winners are
\* the teams holding the highest score, and no step makes a round active.
C4_EmptyPoolStart ==
    /\ [](  (gp # Null /\ Len(availableWords(gameState, wordsUsed)) = 0) =>
              /\ startRound(World, teamScores, wordsUsed, <<>>, now) = World
              /\ view(gameState, teamScores, wordsUsed) = "game-over"
              /\ Range(winners(gameState, teamScores, wordsUsed))
                   = {t \in DOMAIN teamScores :
                        \A u \in DOMAIN teamScores : teamScores[u] <= teamScores[t]}  )
    /\ [][(/\ gameState # Null
           /\ Len(availableWords(gameState, wordsUsed)) = 0
           /\ ~gameState.isRoundActive) =>
            (gameState' # Null /\ ~gameState'.isRoundActive)]_vars

\* C4 witness: every word is used, no team has reached pointsRequired, the
\* two teams tie and both are winners.
C4_Witness ==
    /\ gp # Null
    /\ Len(availableWords(gameState, wordsUsed)) = 0
    /\ ~gameState.isRoundActive
    /\ \A t \in DOMAIN teamScores : teamScores[t] < gameState.settings.pointsRequired
    /\ Len(winners(gameState, teamScores, wordsUsed)) = 2

\* C5: at most one outcome log is scored per started round: no entry on the
\* confirmation screen belongs to a round of which an entry was scored by an
\* earlier confirmation.
C5_OneLogPerRound ==
    [][Confirm =>
        \A i \in DOMAIN finalResults : finalResults[i].rnd \notin scoredRounds]_vars

\* C6: a confirmation leaves wordsUsed equal, as a set, to what it was united
\* with the words of the confirmed log, and the number of distinct used words
\* grows by the length of the log.
C6_Conservation ==
    [][Confirm =>
        /\ Range(wordsUsed') = Range(wordsUsed) \cup Words(finalResults)
        /\ Cardinality(Range(wordsUsed'))
             = Cardinality(Range(wordsUsed)) + Len(finalResults)
        /\ Len(wordsUsed') = Cardinality(Range(wordsUsed'))]_vars

\* C7: the sequence a round serves is a permutation of the theme words not in
\* wordsUsed when the round starts; no word of the ledger is in the sequence
\* of the round being played or on the card; the ledger never holds more
\* words than the theme has.
C7_WordsServedOnce ==
    /\ [][(gp' # Null /\ roundSeq' # roundSeq) =>
            /\ Len(gp'.roundWords) = Cardinality(Range(ThemeWords) \ Range(wordsUsed))
            /\ Range(gp'.roundWords) = Range(ThemeWords) \ Range(wordsUsed)]_vars
    /\ []((gp # Null /\ gameState.isRoundActive) =>
            /\ Range(gp.roundWords) \cap Range(wordsUsed) = {}
            /\ gp.currentWord \notin Range(wordsUsed))
    /\ [](Len(wordsUsed) <= Len(ThemeWords))

\* C8: when the interval callback finds the time up while the word at index
\* k of the round's sequence is on the card, the log it hands on for
\* handleRoundEnd has exactly k entries, the first k words of the sequence in
\* order; the word on the card is not in it.
C8_TimeoutExclusion ==
    [][(/\ TimerTick
        /\ gameState.currentWordIndex < Len(gp.roundWords)
        /\ gp.currentWord = gp.roundWords[gameState.currentWordIndex + 1]) =>
        LET k == gameState.currentWordIndex
            log == tasks'[Len(tasks')].results
        IN  /\ tasks'[Len(tasks')].kind = "onRoundEnd"
            /\ Len(log) = k
            /\ \A i \in 1 .. k : log[i].word = gp.roundWords[i]
            /\ gp.currentWord \notin Words(log)]_vars

\* C8 witness: the first round (two words) timed out after one decision; its
\* log of one entry is on its way to handleRoundEnd and the next round has
\* been started by the auto-start effect.
C8_Witness ==
    /\ gp # Null
    /\ gp.rid = 2
    /\ wordsUsed = <<>>
    /\ \E i \in DOMAIN tasks :
          /\ tasks[i].kind = "onRoundEnd"
          /\ ~tasks[i].dead
          /\ Len(tasks[i].results) = 1
          /\ tasks[i].results[1].rnd = 1

\* handleRoundEnd runs with an empty outcome log
EmptyRoundEnd ==
    \E i \in DOMAIN tasks : RoundEndTimeout(i) /\ Len(tasks[i].results) = 0

\* Some team has reached pointsRequired
WinnerKnown ==
    Len(checkWinCondition(teamScores, gameState.settings.selectedTeams,
                          gameState.settings.pointsRequired)) > 0

C10_AutoStartNextTeam ==
    [][(EmptyRoundEnd /\ gameState'.currentTeamIndex # gameState.currentTeamIndex) =>
        (gameState'.isRoundActive /\ gameState'.roundStartTime # NoTime)]_vars

\* handleRoundEnd runs (the callback endRound scheduled fires)
RoundEndSignal == \E i \in DOMAIN tasks : RoundEndTimeout(i)

\* C11: a handleRoundEnd call that arrives when a team has already reached
\* pointsRequired changes nothing: gameState, the screen, the scores, the
\* used words and the persisted state are what they were.
C11_StaleRoundEndDiscarded ==
    [][(RoundEndSignal /\ WinnerKnown) =>
        /\ gameState' = gameState
        /\ screen' = screen
        /\ teamScores' = teamScores
        /\ wordsUsed' = wordsUsed
        /\ stored' = stored]_vars

\* C11 witness: team A has won by the confirmation of a first log of round 1
\* and a second, non-empty log of that round is on its way to handleRoundEnd.
C11_Witness ==
    /\ gameState # Null
    /\ WinnerKnown
    /\ screen = "game-play"
    /\ \E i \in DOMAIN tasks :
          /\ tasks[i].kind = "onRoundEnd"
          /\ Len(tasks[i].results) = 2
          /\ CanFire(i)

\* C12: endRound is called at most once for every started round (so
\* onRoundEnd is delivered at most once per round), and never by an interval
\* of a GamePlay instance that started no round, whose tick can only come
\* after the round has ended.
C12_OneRoundEndPerRound ==
    \A r \in DOMAIN hist.ends : r # 0 /\ hist.ends[r] <= 1

\* C13: after as many turn advances as there are teams, by confirmation and
\* by the empty-round branch in any mix, currentTeamIndex is the one the
\* advances started from and currentRound is one more; after fewer advances
\* the index is a different one.
C13_TurnRotation ==
    LET st == probe.w.gameState
        n == Len(probe.from.settings.selectedTeams)
    IN  /\ probe.advances = n =>
              /\ st.currentTeamIndex = probe.from.currentTeamIndex
              /\ st.currentRound = probe.from.currentRound + 1
        /\ (0 < probe.advances /\ probe.advances < n) =>
              /\ st.currentTeamIndex # probe.from.currentTeamIndex
              /\ st.currentRound \in {probe.from.currentRound, probe.from.currentRound + 1}

\* C13 witness: three teams, the turn started at the second team in round 2
\* and is back there after three advances, in round 3.
C13_Witness ==
    /\ probe.advances = 3
    /\ Len(probe.from.settings.selectedTeams) = 3
    /\ probe.from.currentTeamIndex = 1
    /\ probe.from.currentRound = 2
    /\ probe.w.gameState.currentTeamIndex = 1
    /\ probe.w.gameState.currentRound = 3

\* the step moves the turn from the last selected team back to the first
TurnWraps ==
    /\ gameState.currentTeamIndex = Len(gameState.settings.selectedTeams) - 1
    /\ gameState'.currentTeamIndex = 0

\* C14: a match starts with currentRound = 1; a step never lowers
\* currentRound, raises it by at most 1, and raises it exactly when the step
\* moves currentTeamIndex from the last team to index 0.
C14_RoundCountsWraps ==
    [][/\ (gameState = Null /\ gameState' # Null) => gameState'.currentRound = 1
       /\ (gameState # Null /\ gameState' # Null) =>
             /\ gameState'.currentRound \in
                    {gameState.currentRound, gameState.currentRound + 1}
             /\ (gameState'.currentRound = gameState.currentRound + 1) <=> TurnWraps]_vars

\* C15: whenever a match exists, also after a reload and after a late
\* callback wrote its state, currentTeamIndex is an index into selectedTeams
\* and the team it names has an entry in teamScores.
C15_CurrentTeamValid ==
    gameState # Null =>
        /\ 0 <= gameState.currentTeamIndex
        /\ gameState.currentTeamIndex < Len(gameState.settings.selectedTeams)
        /\ getCurrentTeam(gameState) \in DOMAIN teamScores

\* C15 witness: the page was reloaded while the last team was at turn, and
\* the restored state names that team, which has its teamScores entry.
C15_Witness ==
    /\ hist.reloads > 0
    /\ gameState # Null
    /\ gameState.currentTeamIndex = Len(gameState.settings.selectedTeams) - 1
    /\ gameState.currentRound = 1
    /\ getCurrentTeam(gameState) = "B"
    /\ "B" \in DOMAIN teamScores

C19_CorruptMeansNoMatch ==
    stored \in {Unparseable, Corrupt} =>
        /\ \A i \in DOMAIN probe.returned : probe.returned[i] = Null
        /\ probe.started =>
              /\ ~probe.threw
              /\ gameState = Null
              /\ screen = "theme-selection"

\* C20 as stated: with fewer than 2 selected teams or a roundTimer below 15
\* Start creates no GameState.
C20_InvalidSettingsRejected ==
    (/\ probe.pressed
     /\ \/ Len(probe.settings.selectedTeams) < 2
        \/ probe.settings.roundTimer < 15)
        => probe.created = Null

\* C20, amended: with fewer than 2 selected teams Start creates no
\* GameState; with 2 or more it creates one, whose roundTimer is the
\* requested one raised to 15 when that is lower (the request is not
\* rejected).  No GameState created has fewer than 2 selected teams or a
\* roundTimer below 15.
C20_TeamsRejectedTimerRaised ==
    probe.pressed =>
        /\ Len(probe.settings.selectedTeams) < 2 => probe.created = Null
        /\ Len(probe.settings.selectedTeams) >= 2 =>
              /\ probe.created # Null
              /\ probe.created.settings.selectedTeams = probe.settings.selectedTeams
              /\ probe.created.settings.roundTimer =
                    (IF probe.settings.roundTimer < 15 THEN 15
                     ELSE probe.settings.roundTimer)
        /\ probe.created # Null =>
              /\ Len(probe.created.settings.selectedTeams) >= 2
              /\ probe.created.settings.roundTimer >= 15

\* C20 witness: Start was pressed with two teams and a roundTimer of 10, and
\* the match exists with a roundTimer of 15.
C20_Witness ==
    /\ probe.pressed
    /\ Len(probe.settings.selectedTeams) = 2
    /\ probe.settings.roundTimer = 10
    /\ probe.created # Null
    /\ probe.created.settings.roundTimer = 15

\* C21: once handleGameEnd has run to its end, and until a new match is
\* started, nothing is persisted, gameState is null and the screen is the
\* theme selection (or the setup the player went on to); neither the sync
\* effect nor a reload brings the finished match back.
C21_FinishedMatchGone ==
    /\ [](hist.exited =>
            /\ stored = Null
            /\ gameState = Null
            /\ gp = Null
            /\ screen \in {"theme-selection", "game-setup"})
    /\ [][((\E awaits \in BOOLEAN : HandleGameEnd(awaits)) /\ hist'.exited) =>
            screen' = "theme-selection"]_vars
    /\ [][((\E i \in DOMAIN tasks : GameEndResolved(i)) \/ (Reload /\ hist.exited)) =>
            (screen' = "theme-selection" /\ gameState' = Null /\ stored' = Null)]_vars

\* C21 witness: a match was won by points, left through New Game, and the
\* page has been reloaded: the theme selection is shown and no match exists.
C21_Witness ==
    /\ hist.exited
    /\ hist.reloads > 0
    /\ scoredRounds # {}
    /\ screen = "theme-selection"
    /\ gameState = Null
    /\ stored = Null

\* C22: for handleGameStart, the confirmation, the empty-round advance and
\* handleGameEnd, gameState, the scores, the persisted item and the screen
\* are the same after the handler whether its remote call was fulfilled or
\* rejected; in particular a rejected call leaves no handler's work undone.
C22_RemoteOutcomeIrrelevant ==
    probe.handler # "none" =>
        /\ probe.fulfilled.w.gameState = probe.rejected.w.gameState
        /\ probe.fulfilled.w.screen = probe.rejected.w.screen
        /\ probe.fulfilled.w.stored = probe.rejected.w.stored
        /\ probe.fulfilled.scores = probe.rejected.scores
        /\ probe.handler = "handleGameStart" =>
              (probe.rejected.w.gameState # Null /\ probe.rejected.w.screen = "game-play")
        /\ probe.handler = "handleGameEnd" =>
              (probe.rejected.w.gameState = Null
               /\ probe.rejected.w.screen = "theme-selection")
        /\ probe.handler \in {"handleRoundResultsConfirm", "handleRoundEnd"} =>
              probe.rejected.w.gameState # probe.r.w.gameState
                  \/ probe.rejected.scores # probe.scores

\* C22 witness: a match was started although createGame was rejected.
C22_Witness ==
    /\ probe.handler = "handleGameStart"
    /\ probe.rejected.gameId = "local"
    /\ probe.fulfilled.gameId = "remote"
    /\ probe.rejected.w.gameState # Null
    /\ probe.rejected.w.gameState = probe.fulfilled.w.gameState
    /\ probe.rejected.w.screen = "game-play"

\* The round of probe.state is running: the flag is set and so is the start
RoundRunning == probe.state.isRoundActive /\ probe.state.roundStartTime # NoTime

\* Milliseconds of the round of probe.state that are over at now
ElapsedMs == now - probe.state.roundStartTime

\* C23: the remaining time is never negative; for a running round it is the
\* least whole number of seconds, at least 0, that covers what is left of
\* roundTimer, and it is 0 exactly when the elapsed time is at least
\* roundTimer; when no round is running it is 0; getRemainingTime, GamePlay's
\* remainingTime and the interval callback compute the same value.
C23_RemainingTime ==
    probe.called =>
        /\ probe.remaining >= 0
        /\ probe.remaining = probe.inline
        /\ probe.remaining = probe.tick
        /\ ~RoundRunning => probe.remaining = 0
        /\ RoundRunning =>
              /\ probe.remaining * 1000 >= probe.state.settings.roundTimer * 1000 - ElapsedMs
              /\ probe.remaining > 0 =>
                    (probe.remaining - 1) * 1000
                        < probe.state.settings.roundTimer * 1000 - ElapsedMs
              /\ probe.remaining = 0 <=>
                    ElapsedMs >= probe.state.settings.roundTimer * 1000

\* C23 witness: 14.001 s of a 15 s round are over and 1 second remains.
C23_Witness ==
    /\ probe.called
    /\ RoundRunning
    /\ probe.state.settings.roundTimer = 15
    /\ ElapsedMs = 14001
    /\ probe.remaining = 1
    /\ probe.inline = 1

\* The rounds a match of Spec starts are numbered 1 to 6 at most.
RoundIds == 1 .. 6

\* Round r is the round GamePlay is running, and the clock of the model
\* reaches the end of its time.
RoundRuns(r) ==
    /\ gameState # Null
    /\ gameState.isRoundActive
    /\ gp # Null
    /\ gp.rid = r
    /\ roundSeq = r
    /\ gameState.roundStartTime + gameState.settings.roundTimer * 1000 <= MaxNow

\* endRound has been called for round r and no callback of an endRound is
\* waiting to call handleRoundEnd.
RoundOver(r) ==
    /\ r \in DOMAIN hist.ends
    /\ \A i \in DOMAIN tasks : tasks[i].kind # "onRoundEnd"

\* C24: with the timers running, every round that is started is ended by
\* endRound and its log is handed to handleRoundEnd, whatever the players
\* do or do not do.
C24_ActiveRoundEnds ==
    \A r \in RoundIds : RoundRuns(r) ~> RoundOver(r)

\* C25: during a match teamScores changes only in a step of
\* handleRoundResultsConfirm, and then only in the entry of the team whose
\* turn it is; every other step (a round start, a decision, a timeout, an
\* empty-round advance, a reload) leaves every score as it is, and no step
\* adds or removes a team's entry.
C25_ScoresChangeOnlyOnConfirm ==
    [][(gameState # Null /\ gameState' # Null) =>
        /\ DOMAIN teamScores' = DOMAIN teamScores
        /\ teamScores' # teamScores =>
              /\ Confirm
              /\ \A t \in DOMAIN teamScores :
                    t # getCurrentTeam(gameState) => teamScores'[t] = teamScores[t]]_vars

\* C25 witness: team A's score was changed by a confirmation, team B's is
\* still 0, and the scores came through a reload and the start of team B's
\* round.
C25_Witness ==
    /\ gameState # Null
    /\ scoredRounds # {}
    /\ hist.reloads > 0
    /\ teamScores["A"] = 1
    /\ teamScores["B"] = 0
    /\ gameState.currentTeamIndex = 1
    /\ gameState.isRoundActive

\* The number of positions of s that hold x.
Occurrences(s, x) == Cardinality({i \in DOMAIN s : s[i] = x})

\* Every arrangement of the items of s, multiplicities kept.
Arrangements(s) ==
    {r \in [DOMAIN s -> Range(s)] :
        \A x \in Range(s) : Occurrences(r, x) = Occurrences(s, x)}

\* C26: shuffleArray returns a permutation of its input (same length, same
\* items with the same multiplicities), the input array is what it was
\* before the call, and every permutation of the input is a possible result.
C26_ShuffleIsAnyPermutation ==
    /\ shuffleArray(probe.input) = Arrangements(probe.input)
    /\ probe.called =>
          /\ Len(probe.shuffled) = Len(probe.input)
          /\ \A x \in ShuffleItems :
                Occurrences(probe.shuffled, x) = Occurrences(probe.input, x)
          /\ probe.array = probe.input

\* C26 witness: an array with a repeated item came back in another order.
C26_Witness ==
    /\ probe.called
    /\ probe.input = <<"a", "b", "a", "c">>
    /\ probe.shuffled = <<"c", "a", "b", "a">>

\* the step is a confirmation that produces no winner: the turn advances
ConfirmAdvances ==
    /\ Confirm
    /\ Len(checkWinCondition(teamScores', gameState.settings.selectedTeams,
                             gameState.settings.pointsRequired)) = 0

\* the step is handleRoundEnd with an empty log and no winner: the turn
\* advances
EmptyRoundAdvances ==
    \E i \in 1 .. Len(tasks) :
        /\ RoundEndTimeout(i)
        /\ Len(tasks[i].results) = 0
        /\ ~roundEndIgnored(tasks[i].state, teamScores)

\* C27: every turn advance, by a confirmation or by the empty-log branch of
\* handleRoundEnd, leaves roundResults empty, isRoundActive false, and
\* roundStartTime and roundEndTime both null.
C27_AdvanceClearsRound ==
    [][(ConfirmAdvances \/ EmptyRoundAdvances) =>
        /\ gameState'.roundResults = <<>>
        /\ ~gameState'.isRoundActive
        /\ gameState'.roundStartTime = NoTime
        /\ gameState'.roundEndTime = NoTime]_vars

\* C28: gameState.roundResults is empty after every confirmation, when the
\* turn advances and when the confirmation produces a winner.
C28_LogEmptyAfterConfirm ==
    [][Confirm => gameState'.roundResults = <<>>]_vars

\* the step contains a startRound that found words to play: by the Start
\* Round button or by the auto-start effect
RoundStarts == roundSeq' # roundSeq

\* C29: startRound with a non-empty available pool sets isRoundActive to
\* true, roundStartTime to Date.now() and currentWordIndex to 0 and empties
\* GamePlay's outcome log (roundResults and roundResultsRef); teamScores,
\* wordsUsed, currentTeamIndex, currentRound and settings are what they
\* were.  The Start Round button with a non-empty pool always starts a round.
C29_StartRoundEffect ==
    [][/\ (StartRound /\ Len(availableWords(gameState, wordsUsed)) > 0) => RoundStarts
       /\ RoundStarts =>
             /\ gameState'.isRoundActive
             /\ gameState'.roundStartTime = now
             /\ gameState'.currentWordIndex = 0
             /\ gp'.roundResults = <<>>
             /\ gp'.roundResultsRef = <<>>
             /\ teamScores' = teamScores
             /\ wordsUsed' = wordsUsed
             /\ gameState'.currentTeamIndex = gameState.currentTeamIndex
             /\ gameState'.currentRound = gameState.currentRound
             /\ gameState'.settings = gameState.settings]_vars

\* C29 witness: team B's round has just started, after team A's round was
\* scored: the scores and the used word are in place, the log is empty.
C29_Witness ==
    /\ gameState # Null
    /\ gp # Null
    /\ gameState.isRoundActive
    /\ gameState.roundStartTime = now
    /\ gameState.currentWordIndex = 0
    /\ gameState.currentTeamIndex = 1
    /\ gp.roundResults = <<>>
    /\ gp.rid > 1
    /\ teamScores["A"] = 1
    /\ wordsUsed = <<"w1">>

\* GamePlay shows a round in play
RoundInPlay ==
    /\ gameState # Null
    /\ gp # Null
    /\ view(gameState, teamScores, wordsUsed) = "round"

\* the step is the delayed callback of a guess/skip decision, in a mounted
\* GamePlay
Decides ==
    \E i \in 1 .. Len(tasks) : WordActionTimeout(i) /\ ~tasks[i].dead

\* ... and the word decided is the last of the round's sequence
DecidesLast ==
    /\ Decides
    /\ gp.roundWords # <<>>
    /\ gp.currentWord = gp.roundWords[Len(gp.roundWords)]

\* C30: during an active round the outcome log is as long as
\* currentWordIndex and its i-th entry holds the i-th word of roundWords;
\* each decision appends exactly one entry, for the current word, and a
\* decision that is not the last raises currentWordIndex by one; deciding the
\* last word of the sequence ends the round with timedOut = false.
C30_LogFollowsSequence ==
    /\ [](RoundInPlay =>
            /\ Len(gp.roundResults) = gameState.currentWordIndex
            /\ Len(gp.roundResults) <= Len(gp.roundWords)
            /\ \A k \in DOMAIN gp.roundResults :
                  gp.roundResults[k].word = gp.roundWords[k])
    /\ [][Decides =>
            /\ Len(gp'.roundResults) = Len(gp.roundResults) + 1
            /\ SubSeq(gp'.roundResults, 1, Len(gp.roundResults)) = gp.roundResults
            /\ gp'.roundResults[Len(gp'.roundResults)].word = gp.currentWord]_vars
    /\ [][(Decides /\ ~DecidesLast) =>
            gameState'.currentWordIndex = gameState.currentWordIndex + 1]_vars
    /\ [][DecidesLast =>
            /\ ~gp'.roundEndedByTimeout
            /\ \E k \in 1 .. Len(tasks') : tasks'[k].kind = "onRoundEnd"]_vars

\* C31: initializeGameState(settings) returns a state whose teamScores has
\* exactly the selected teams, each at 0, with currentTeamIndex 0,
\* currentRound 1, wordsUsed empty, currentWordIndex 0, isRoundActive false,
\* roundStartTime and roundEndTime null, roundResults empty, and the
\* settings it was given.
C31_InitialState ==
    probe.made # Null =>
        LET made == probe.made
            teams == probe.settings.selectedTeams
        IN  /\ DOMAIN made.teamScores = {teams[i] : i \in DOMAIN teams}
            /\ \A t \in DOMAIN made.teamScores : made.teamScores[t] = 0
            /\ made.state.currentTeamIndex = 0
            /\ made.state.currentRound = 1
            /\ made.wordsUsed = <<>>
            /\ made.state.currentWordIndex = 0
            /\ ~made.state.isRoundActive
            /\ made.state.roundStartTime = NoTime
            /\ made.state.roundEndTime = NoTime
            /\ made.state.roundResults = <<>>
            /\ made.state.settings = probe.settings

\* C31 witness: the state made for three teams
C31_Witness ==
    /\ probe.made # Null
    /\ probe.settings.selectedTeams = <<"B", "A", "C">>
    /\ DOMAIN probe.made.teamScores = {"A", "B", "C"}
    /\ probe.made.state.currentRound = 1

\* the step is the onRoundEnd callback of an endRound that was called before
\* the latest round was started
LateRoundEnd ==
    \E i \in 1 .. Len(tasks) :
        /\ RoundEndTimeout(i)
        /\ tasks[i].seq < roundSeq

\* C32: starting a round cancels the callback a preceding endRound scheduled:
\* an onRoundEnd callback that runs after a later round was started does not
\* advance the turn and does not overwrite gameState or take GamePlay away.
C32_RoundStartCancelsRoundEnd ==
    [][LateRoundEnd =>
        /\ gameState' = gameState
        /\ screen' = screen]_vars

\* the entries of s are pairwise distinct
Distinct(s) == \A i, j \in DOMAIN s : s[i] = s[j] => i = j

\* C33: from GameSetup's initial selection, after any toggleTeam operations,
\* between 2 and 10 teams are selected and they are pairwise distinct; so
\* are the selectedTeams of every settings value handed to onStart.
C33_SelectionBounds ==
    /\ Len(probe.selectedTeams) >= 2
    /\ Len(probe.selectedTeams) <= 10
    /\ Distinct(probe.selectedTeams)
    /\ probe.onStart # Null =>
          /\ Len(probe.onStart) >= 2
          /\ Len(probe.onStart) <= 10
          /\ Distinct(probe.onStart)

\* C33 witness: ten of eleven teams are selected after toggles, and Start
\* hands them on.
C33_Witness ==
    /\ probe.toggled
    /\ Len(probe.teams) = 11
    /\ Len(probe.selectedTeams) = 10
    /\ probe.selectedTeams[1] # "A"
    /\ probe.onStart # Null
    /\ Len(probe.onStart) = 10

\* C34: every score is an integer in every reachable state; in a match with
\* skipPenalty off no score is negative and no step lowers a score.  (A
\* negative score is then reachable with skipPenalty on only: the witness.)
C34_ScoresIntegerAndSigned ==
    /\ [](gameState # Null =>
            /\ \A t \in DOMAIN teamScores : teamScores[t] \in Int
            /\ ~gameState.settings.skipPenalty =>
                  \A t \in DOMAIN teamScores : teamScores[t] >= 0)
    /\ [][(gameState # Null /\ gameState' # Null /\ ~gameState.settings.skipPenalty
           /\ hist'.matches = hist.matches) =>
            \A t \in DOMAIN teamScores : teamScores'[t] >= teamScores[t]]_vars

\* C34 witness: with skipPenalty on, a confirmed round of skips has taken
\* team A below zero.
C34_Witness ==
    /\ gameState # Null
    /\ gameState.settings.skipPenalty
    /\ scoredRounds # {}
    /\ teamScores["A"] < 0

\* with skipPenalty off, a confirmed round with a skip in it has left the
\* score where the guesses put it
C34_WitnessNoPenalty ==
    /\ gameState # Null
    /\ ~gameState.settings.skipPenalty
    /\ scoredRounds # {}
    /\ wordsUsed # <<>>
    /\ teamScores["A"] = 0

\* C35: whatever the outcome log, the toggles made on the confirmation
\* screen and the skipPenalty setting, the 'earned' value RoundResults shows
\* is the score change handleRoundResultsConfirm applies when Confirm is
\* pressed.
C35_EarnedIsApplied ==
    /\ probe.shown = scoreChange(probe.finalResults, probe.state.settings.skipPenalty)
    /\ probe.applied # Null => probe.applied.change = probe.shown

\* C35 witness: skipPenalty is off, a word was toggled, one word is guessed
\* and two are skipped: 1 is shown and 1 is applied.
C35_Witness ==
    /\ probe.applied # Null
    /\ ~probe.state.settings.skipPenalty
    /\ probe.toggles > 0
    /\ Len(probe.finalResults) = 3
    /\ probe.shown = 1
    /\ probe.applied.change = 1

\* some team's score is at or above pointsRequired
ThresholdReached ==
    /\ gameState # Null
    /\ \E t \in DOMAIN teamScores : teamScores[t] >= gameState.settings.pointsRequired

\* C36: once some team's score is at or above pointsRequired, no step of the
\* match (handleGameEnd and logout are not among the steps) changes
\* teamScores, wordsUsed, currentTeamIndex or currentRound, and no round
\* becomes active: startRound starts none and isRoundActive does not turn
\* true.
C36_GameOverAbsorbing ==
    [][(ThresholdReached /\ gameState' # Null /\ hist'.matches = hist.matches) =>
        /\ teamScores' = teamScores
        /\ wordsUsed' = wordsUsed
        /\ gameState'.currentTeamIndex = gameState.currentTeamIndex
        /\ gameState'.currentRound = gameState.currentRound
        /\ ~RoundStarts
        /\ ~gameState.isRoundActive => ~gameState'.isRoundActive]_vars

\* the step is the delayed callback of a decision made in a round for which
\* endRound has been called already (by the interval: nothing else ends a
\* round while a decision is pending)
LateDecision ==
    \E i \in 1 .. Len(tasks) :
        /\ WordActionTimeout(i)
        /\ tasks[i].rid \in DOMAIN hist.ends

\* C37: the delayed processing of a decision that runs after its round was
\* ended by the timeout does not turn isRoundActive back to true, does not
\* change currentWordIndex, and leaves the log handed to confirmation
\* (gameState.roundResults, RoundResults' finalResults) as it is.
C37_LateDecisionHarmless ==
    [][LateDecision =>
        /\ ~gameState.isRoundActive => ~gameState'.isRoundActive
        /\ gameState'.currentWordIndex = gameState.currentWordIndex
        /\ gameState'.roundResults = gameState.roundResults
        /\ finalResults' = finalResults]_vars

\* the number of words of the theme not yet used
PoolSize == Len(availableWords(gameState, wordsUsed))

\* C38: every confirmation of a log with at least one decision strictly
\* shrinks the available pool, no step of a match ever enlarges it, and with
\* the pool empty or the threshold reached GamePlay shows game over: a match
\* whose rounds each record a decision and are confirmed is over after at
\* most as many rounds as the theme has words.
C38_ConfirmationsShrinkPool ==
    /\ [][(Confirm /\ finalResults # <<>>) =>
            Len(availableWords(gameState', wordsUsed')) < PoolSize]_vars
    /\ [][(gameState # Null /\ gameState' # Null /\ hist'.matches = hist.matches) =>
            Len(availableWords(gameState', wordsUsed')) <= PoolSize]_vars
    /\ []((gameState # Null /\ (PoolSize = 0 \/ ThresholdReached)) =>
            view(gameState, teamScores, wordsUsed) = "game-over")
    /\ [](gameState # Null => Cardinality(scoredRounds) + PoolSize <= Len(gameState.settings.theme))

\* C38 witness: two rounds with a decision each were confirmed, no team has
\* reached pointsRequired, and the pool of the two-word theme is empty: game
\* over.
C38_Witness ==
    /\ gameState # Null
    /\ Cardinality(scoredRounds) = 2
    /\ PoolSize = 0
    /\ ~ThresholdReached
    /\ screen = "game-play"
    /\ view(gameState, teamScores, wordsUsed) = "game-over"

\* GamePlay shows the winner(s) a confirmation produced
WinnerShown ==
    /\ gameState # Null
    /\ screen = "game-play"
    /\ Len(checkWinCondition(teamScores, gameState.settings.selectedTeams,
                             gameState.settings.pointsRequired)) > 0

\* C39: once handleRoundResultsConfirm has found a winner, the persisted
\* match state is absent for as long as the winner screen is shown, and a
\* reload at that point restores no match.
C39_WinnerNotPersisted ==
    /\ [](WinnerShown => stored = Null)
    /\ [][(WinnerShown /\ Reload) => gameState' = Null]_vars

====
